---- MODULE Spec2Model ----
(***************************************************************************)
(* VTF codec of the VTF Photoshop plugin: VTFWriter (encoder), VTFLoader   *)
(* (decoder), the DXT block codec and the header size arithmetic.          *)
(* Buffers are sequences of bytes (0..255); offsets are 0-based as in the  *)
(* C++ source and mapped to the 1-based sequences by At/Slice.             *)
(***************************************************************************)
EXTENDS Integers, Sequences, FiniteSets, TLC

VARIABLES
    writer,     \* the VTFWriter object
    requested,  \* the format last asked for through SetFormat (the default before)
    output,     \* the vector WriteToMemory filled
    loader,     \* the VTFLoader object
    data,       \* the buffer of the last LoadFromMemory call
    ret,        \* what the last LoadFromMemory call did
    pc,         \* "new", "config", "written", "loaded", "reloaded", "probed"
    probe,      \* the last call of a free function: its name, arguments, result
    plugin      \* the plugin's globals: gData's settings, the sticky settings, *gResult

vars == <<writer, requested, output, loader, data, ret, pc, probe, plugin>>

(***************************************************************************)
(* Bounds of the model.                                                    *)
(***************************************************************************)
\* Source images handed to the encoder are 1..MaxDim pixels wide and high.
MaxDim == 5
\* Crafted headers declare widths and heights 0..MaxHdrDim.
MaxHdrDim == 2
\* Crafted headers declare 0..MaxMips mip levels and 0..MaxFrames frames.
MaxMips == 3
MaxFrames == 2

(***************************************************************************)
(* Byte-level helpers.                                                     *)
(***************************************************************************)
Byte == 0..255

Min2(a, b) == IF a < b THEN a ELSE b
Max2(a, b) == IF a > b THEN a ELSE b

RECURSIVE Pow2(_)
Pow2(n) == IF n = 0 THEN 1 ELSE 2 * Pow2(n - 1)

\* The byte at 0-based offset off of buf.
At(buf, off) == buf[off + 1]

\* The n bytes of buf starting at 0-based offset off.
Slice(buf, off, n) == SubSeq(buf, off + 1, off + n)

Zeros(n) == [i \in 1..n |-> 0]

RECURSIVE Concat(_)
Concat(ss) == IF ss = <<>> THEN <<>> ELSE Head(ss) \o Concat(Tail(ss))

\* Little-endian stores of a uint16_t and of a 32-bit word.  A negative
\* value is stored in two's complement, as static_cast<uint32_t> does.
LE16(v) == <<v % 256, (v \div 256) % 256>>

LE32(v) ==
    IF v >= 0
    THEN <<v % 256, (v \div 256) % 256, (v \div 65536) % 256, (v \div 16777216) % 256>>
    ELSE LET u == (v + 2147483647) + 1
         IN  <<u % 256, (u \div 256) % 256, (u \div 65536) % 256,
               ((u \div 16777216) % 256) + 128>>

\* Little-endian loads.
ReadU8(buf, off) == At(buf, off)

ReadU16(buf, off) == At(buf, off) + 256 * At(buf, off + 1)

\* A uint32_t field used as an unsigned quantity (headerSize).
ReadU32(buf, off) ==
    At(buf, off) + 256 * At(buf, off + 1) + 65536 * At(buf, off + 2)
        + 16777216 * At(buf, off + 3)

\* A uint32_t field converted to int (or to the int-based enum): the same
\* 32 bits read as a two's complement value.
ReadI32(buf, off) ==
    At(buf, off) + 256 * At(buf, off + 1) + 65536 * At(buf, off + 2)
        + 16777216 * (IF At(buf, off + 3) >= 128 THEN At(buf, off + 3) - 256
                      ELSE At(buf, off + 3))

(***************************************************************************)
(* VTFFormat.h: image formats, bytes per pixel, image sizes.               *)
(***************************************************************************)
IMAGE_FORMAT_NONE == -1
IMAGE_FORMAT_RGBA8888 == 0
IMAGE_FORMAT_ABGR8888 == 1
IMAGE_FORMAT_RGB888 == 2
IMAGE_FORMAT_BGR888 == 3
IMAGE_FORMAT_RGB565 == 4
IMAGE_FORMAT_I8 == 5
IMAGE_FORMAT_IA88 == 6
IMAGE_FORMAT_P8 == 7
IMAGE_FORMAT_A8 == 8
IMAGE_FORMAT_RGB888_BLUESCREEN == 9
IMAGE_FORMAT_BGR888_BLUESCREEN == 10
IMAGE_FORMAT_ARGB8888 == 11
IMAGE_FORMAT_BGRA8888 == 12
IMAGE_FORMAT_DXT1 == 13
IMAGE_FORMAT_DXT3 == 14
IMAGE_FORMAT_DXT5 == 15
IMAGE_FORMAT_BGRX8888 == 16
IMAGE_FORMAT_BGR565 == 17
IMAGE_FORMAT_BGRX5551 == 18
IMAGE_FORMAT_BGRA4444 == 19
IMAGE_FORMAT_DXT1_ONEBITALPHA == 20
IMAGE_FORMAT_BGRA5551 == 21
IMAGE_FORMAT_UV88 == 22
IMAGE_FORMAT_UVWQ8888 == 23
IMAGE_FORMAT_RGBA16161616F == 24
IMAGE_FORMAT_RGBA16161616 == 25
IMAGE_FORMAT_UVLX8888 == 26

TEXTUREFLAGS_NORMAL == 128
TEXTUREFLAGS_NOMIP == 256
TEXTUREFLAGS_ONEBITALPHA == 4096
TEXTUREFLAGS_EIGHTBITALPHA == 8192

\* sizeof(VTFHeader) under #pragma pack(1).
HeaderBytes == 80

\* int arithmetic of the x64 build: a product is the low 32 bits of the
\* exact product, read as a two's complement value (imul).  Halves of 16
\* bits keep every intermediate value below 2^31.
Lo16(a) == a % 65536
Hi16(a) == ((a - Lo16(a)) \div 65536) % 65536

\* The exact product of two 16-bit values as <<high half, low half>>.
Mul16(x, y) ==
    LET p1 == x * (y \div 256)
        p0 == x * (y % 256)
        low == (p1 % 256) * 256 + p0
    IN  <<(p1 \div 256 + low \div 65536) % 65536, low % 65536>>

\* The int with the given 16-bit halves.
IntOfHalves(hi, lo) == IF hi >= 32768 THEN (hi - 65536) * 65536 + lo ELSE hi * 65536 + lo

IntMul(a, b) ==
    IF a \in 0..46340 /\ b \in 0..46340 THEN a * b
    ELSE LET ll == Mul16(Lo16(a), Lo16(b))
             mid == Mul16(Hi16(a), Lo16(b))[2] + Mul16(Lo16(a), Hi16(b))[2]
         IN  IntOfHalves((ll[1] + mid) % 65536, ll[2])

GetBytesPerPixel(format) ==
    CASE format \in {IMAGE_FORMAT_RGBA8888, IMAGE_FORMAT_ABGR8888, IMAGE_FORMAT_ARGB8888,
                     IMAGE_FORMAT_BGRA8888, IMAGE_FORMAT_BGRX8888, IMAGE_FORMAT_UVWQ8888,
                     IMAGE_FORMAT_UVLX8888} -> 4
      [] format \in {IMAGE_FORMAT_RGB888, IMAGE_FORMAT_BGR888,
                     IMAGE_FORMAT_RGB888_BLUESCREEN, IMAGE_FORMAT_BGR888_BLUESCREEN} -> 3
      [] format \in {IMAGE_FORMAT_RGB565, IMAGE_FORMAT_BGR565, IMAGE_FORMAT_BGRX5551,
                     IMAGE_FORMAT_BGRA5551, IMAGE_FORMAT_BGRA4444, IMAGE_FORMAT_IA88,
                     IMAGE_FORMAT_UV88} -> 2
      [] format \in {IMAGE_FORMAT_I8, IMAGE_FORMAT_P8, IMAGE_FORMAT_A8} -> 1
      [] format \in {IMAGE_FORMAT_RGBA16161616F, IMAGE_FORMAT_RGBA16161616} -> 8
      [] OTHER -> 0

\* A size function that counts half a byte (DXT1) or a byte (DXT3, DXT5) per
\* pixel instead of whole 4x4 blocks.
CalculateImageSizeUnpadded(width, height, format) ==
    LET w == IF width < 1 THEN 1 ELSE width
        h == IF height < 1 THEN 1 ELSE height
    IN  CASE format \in {IMAGE_FORMAT_DXT1, IMAGE_FORMAT_DXT1_ONEBITALPHA} ->
                IntMul(IntMul(w, h), 8) \div 16
          [] format \in {IMAGE_FORMAT_DXT3, IMAGE_FORMAT_DXT5} -> IntMul(w, h)
          [] OTHER -> IntMul(IntMul(w, h), GetBytesPerPixel(format))

CalculateImageSize(width, height, format) ==
    LET w == IF width < 1 THEN 1 ELSE width
        h == IF height < 1 THEN 1 ELSE height
    IN  CASE format \in {IMAGE_FORMAT_DXT1, IMAGE_FORMAT_DXT1_ONEBITALPHA} ->
                IntMul(IntMul((w + 3) \div 4, (h + 3) \div 4), 8)
          [] format \in {IMAGE_FORMAT_DXT3, IMAGE_FORMAT_DXT5} ->
                IntMul(IntMul((w + 3) \div 4, (h + 3) \div 4), 16)
          [] OTHER -> IntMul(IntMul(w, h), GetBytesPerPixel(format))

FormatHasAlpha(format) ==
    format \in {IMAGE_FORMAT_RGBA8888, IMAGE_FORMAT_ABGR8888, IMAGE_FORMAT_ARGB8888,
                IMAGE_FORMAT_BGRA8888, IMAGE_FORMAT_BGRA5551, IMAGE_FORMAT_BGRA4444,
                IMAGE_FORMAT_DXT1_ONEBITALPHA, IMAGE_FORMAT_DXT3, IMAGE_FORMAT_DXT5,
                IMAGE_FORMAT_A8, IMAGE_FORMAT_IA88, IMAGE_FORMAT_RGBA16161616F,
                IMAGE_FORMAT_RGBA16161616}

\* One step of the mip chain: (d > 1) ? d / 2 : 1.
HalfDim(d) == IF d > 1 THEN d \div 2 ELSE 1

(***************************************************************************)
(* VTFWriter.h, namespace DXTCompress: the block encoder.  A block is the  *)
(* 64 bytes of 16 RGBA pixels, pixel i = y * 4 + x.                        *)
(***************************************************************************)
\* The minimum (maximum) of channel c over the 16 pixels of a block.
ChannelMin(rgba, c) ==
    CHOOSE m \in {At(rgba, i * 4 + c) : i \in 0..15} :
        \A i \in 0..15 : m <= At(rgba, i * 4 + c)

ChannelMax(rgba, c) ==
    CHOOSE m \in {At(rgba, i * 4 + c) : i \in 0..15} :
        \A i \in 0..15 : m >= At(rgba, i * 4 + c)

\* A 565 packing with the red and blue fields exchanged.
ToColor565Swapped(rgb) == (rgb[3] \div 8) * 2048 + (rgb[2] \div 4) * 32 + (rgb[1] \div 8)

\* ((r >> 3) << 11) | ((g >> 2) << 5) | (b >> 3)
ToColor565(rgb) == (rgb[1] \div 8) * 2048 + (rgb[2] \div 4) * 32 + (rgb[3] \div 8)

\* The loop "if (dist < bestDist) { bestDist = dist; bestIdx = j; }" over
\* j = 0 .. Len(dists)-1, started from INT_MAX: the first index of a minimum.
BestIndex(dists) ==
    CHOOSE j \in 0..(Len(dists) - 1) :
        /\ \A k \in 0..(Len(dists) - 1) : dists[j + 1] <= dists[k + 1]
        /\ \A k \in 0..(j - 1) : dists[k + 1] > dists[j + 1]

\* Endpoints with color0 packed from the minima and color1 from the maxima.
DXT1EndpointsFromMinima(rgba) ==
    LET mn == <<ChannelMin(rgba, 0), ChannelMin(rgba, 1), ChannelMin(rgba, 2)>>
        mx == <<ChannelMax(rgba, 0), ChannelMax(rgba, 1), ChannelMax(rgba, 2)>>
        c0 == ToColor565(mn)
        c1 == ToColor565(mx)
    IN  IF c0 < c1
        THEN [color0 |-> c1, color1 |-> c0, maxColor |-> mx, minColor |-> mn, swapped |-> TRUE]
        ELSE [color0 |-> c0, color1 |-> c1, maxColor |-> mn, minColor |-> mx, swapped |-> FALSE]

\* The endpoints CompressDXT1Block settles on: color0, color1 and the
\* maxColor / minColor triples after the swap of lines 30-33.
DXT1Endpoints(rgba) ==
    LET mn == <<ChannelMin(rgba, 0), ChannelMin(rgba, 1), ChannelMin(rgba, 2)>>
        mx == <<ChannelMax(rgba, 0), ChannelMax(rgba, 1), ChannelMax(rgba, 2)>>
        c0 == ToColor565(mx)
        c1 == ToColor565(mn)
    IN  IF c0 < c1
        THEN [color0 |-> c1, color1 |-> c0, maxColor |-> mn, minColor |-> mx, swapped |-> TRUE]
        ELSE [color0 |-> c0, color1 |-> c1, maxColor |-> mx, minColor |-> mn, swapped |-> FALSE]

\* The encoder's 4-entry palette (entries 0..3 at positions 1..4).
DXT1EncPalette(e) ==
    << e.maxColor,
       e.minColor,
       [c \in 1..3 |-> (2 * e.maxColor[c] + e.minColor[c]) \div 3],
       [c \in 1..3 |-> (e.maxColor[c] + 2 * e.minColor[c]) \div 3] >>

\* The palette index chosen for each of the 16 pixels (positions 1..16).
DXT1Indices(rgba, palette) ==
    [p \in 1..16 |->
        BestIndex([j \in 1..4 |->
            LET d0 == At(rgba, (p - 1) * 4 + 0) - palette[j][1]
                d1 == At(rgba, (p - 1) * 4 + 1) - palette[j][2]
                d2 == At(rgba, (p - 1) * 4 + 2) - palette[j][3]
            IN  d0 * d0 + d1 * d1 + d2 * d2])]

\* 16 two-bit indices packed little-endian into 4 bytes.
Pack2(idx) ==
    [k \in 1..4 |-> idx[4 * k - 3] + 4 * idx[4 * k - 2] + 16 * idx[4 * k - 1]
                        + 64 * idx[4 * k]]

CompressDXT1Block(rgba) ==
    LET e == DXT1Endpoints(rgba)
    IN  LE16(e.color0) \o LE16(e.color1) \o Pack2(DXT1Indices(rgba, DXT1EncPalette(e)))

\* The encoder's 8-entry alpha palette (entries 0..7 at positions 1..8).
DXT5EncAlphaPalette(maxAlpha, minAlpha) ==
    [k \in 1..8 |->
        IF k = 1 THEN maxAlpha
        ELSE IF k = 2 THEN minAlpha
        ELSE IF maxAlpha > minAlpha
             THEN ((6 - (k - 3)) * maxAlpha + ((k - 3) + 1) * minAlpha) \div 7
             ELSE IF k <= 6
                  THEN ((4 - (k - 3)) * maxAlpha + ((k - 3) + 1) * minAlpha) \div 5
                  ELSE IF k = 7 THEN 0 ELSE 255]

Abs(x) == IF x < 0 THEN -x ELSE x

DXT5AlphaIndices(rgba, alphaPalette) ==
    [p \in 1..16 |->
        BestIndex([j \in 1..8 |-> Abs(At(rgba, (p - 1) * 4 + 3) - alphaPalette[j])])]

\* 16 three-bit indices packed little-endian into 6 bytes: bit b of the
\* 48-bit word is bit (b mod 3) of index (b div 3).
Pack3(idx) ==
    [k \in 1..6 |->
        LET Bit(b) == (idx[(b \div 3) + 1] \div Pow2(b % 3)) % 2
            B(j) == Bit(8 * (k - 1) + j)
        IN  B(0) + 2 * B(1) + 4 * B(2) + 8 * B(3) + 16 * B(4) + 32 * B(5)
                + 64 * B(6) + 128 * B(7)]

CompressDXT5Block(rgba) ==
    LET minAlpha == ChannelMin(rgba, 3)
        maxAlpha == ChannelMax(rgba, 3)
    IN  <<maxAlpha, minAlpha>>
            \o Pack3(DXT5AlphaIndices(rgba, DXT5EncAlphaPalette(maxAlpha, minAlpha)))
            \o CompressDXT1Block(rgba)

(***************************************************************************)
(* DXTDecompress.h, namespace DXT: the block decoder.                      *)
(***************************************************************************)
\* Expands an RGB565 word to 8-bit channels, replicating the high bits.
DecodeColor565(color) ==
    LET r == (color \div 2048) * 8
        g == ((color \div 32) % 64) * 4
        b == (color % 32) * 8
    IN  <<r + (r \div 32), g + (g \div 64), b + (b \div 32)>>

\* Whether DecompressDXT1Block takes the four-colour branch.
DXT1FourColorMode(color0, color1, hasAlpha) == color0 > color1 \/ ~hasAlpha

\* The decoder's 4-entry RGBA palette (entries 0..3 at positions 1..4).
DXT1DecPalette(color0, color1, hasAlpha) ==
    LET p0 == DecodeColor565(color0)
        p1 == DecodeColor565(color1)
    IN  IF DXT1FourColorMode(color0, color1, hasAlpha)
        THEN << p0 \o <<255>>,
                p1 \o <<255>>,
                [c \in 1..3 |-> (2 * p0[c] + p1[c]) \div 3] \o <<255>>,
                [c \in 1..3 |-> (p0[c] + 2 * p1[c]) \div 3] \o <<255>> >>
        ELSE << p0 \o <<255>>,
                p1 \o <<255>>,
                [c \in 1..3 |-> (p0[c] + p1[c]) \div 2] \o <<255>>,
                <<0, 0, 0, IF hasAlpha THEN 0 ELSE 255>> >>

\* The 2-bit index of pixel p (0..15) in the 4 index bytes at src + 4.
DXT1IndexAt(src, p) == (At(src, 4 + (p \div 4)) \div Pow2(2 * (p % 4))) % 4

\* The 64 bytes of the 4x4 block decoded from the 8 bytes src.
DecompressDXT1Block(src, hasAlpha) ==
    LET palette == DXT1DecPalette(ReadU16(src, 0), ReadU16(src, 2), hasAlpha)
    IN  [i \in 1..64 |-> palette[DXT1IndexAt(src, (i - 1) \div 4) + 1][((i - 1) % 4) + 1]]

\* The explicit 4-bit alpha of pixel p of a DXT3 block, expanded to 8 bits.
DXT3AlphaAt(src, p) ==
    LET a == IF p % 2 = 1 THEN (At(src, p \div 2) \div 16) % 16
                          ELSE At(src, p \div 2) % 16
    IN  (a + 16 * a) % 256

DecompressDXT3Block(src) ==
    LET color == DecompressDXT1Block(Slice(src, 8, 8), FALSE)
    IN  [i \in 1..64 |-> IF (i - 1) % 4 = 3 THEN DXT3AlphaAt(src, (i - 1) \div 4)
                                            ELSE color[i]]

\* A branch test that also takes the 8-step branch for equal endpoints.
DXT5EightAlphaModeOrEqual(alpha0, alpha1) == alpha0 >= alpha1

\* Whether DecompressDXT5Block takes the 8-step alpha branch.
DXT5EightAlphaMode(alpha0, alpha1) == alpha0 > alpha1

DXT5DecAlphaPalette(alpha0, alpha1) ==
    [k \in 1..8 |->
        IF k = 1 THEN alpha0
        ELSE IF k = 2 THEN alpha1
        ELSE IF DXT5EightAlphaMode(alpha0, alpha1)
             THEN ((6 - (k - 3)) * alpha0 + ((k - 3) + 1) * alpha1) \div 7
             ELSE IF k <= 6
                  THEN ((4 - (k - 3)) * alpha0 + ((k - 3) + 1) * alpha1) \div 5
                  ELSE IF k = 7 THEN 0 ELSE 255]

\* The 3-bit alpha index of pixel p (0..15) in the 6 index bytes at src + 2.
DXT5AlphaIndexAt(src, p) ==
    LET Bit(b) == (At(src, 2 + (b \div 8)) \div Pow2(b % 8)) % 2
    IN  Bit(3 * p) + 2 * Bit(3 * p + 1) + 4 * Bit(3 * p + 2)

DecompressDXT5Block(src) ==
    LET alphaPalette == DXT5DecAlphaPalette(At(src, 0), At(src, 1))
        color == DecompressDXT1Block(Slice(src, 8, 8), FALSE)
    IN  [i \in 1..64 |->
            IF (i - 1) % 4 = 3 THEN alphaPalette[DXT5AlphaIndexAt(src, (i - 1) \div 4) + 1]
                               ELSE color[i]]

\* Bytes per block of a block-compressed format.
DXTBlockBytes(format) ==
    IF format \in {IMAGE_FORMAT_DXT1, IMAGE_FORMAT_DXT1_ONEBITALPHA} THEN 8 ELSE 16

\* DecompressDXT: blocks are read in row-major order from src; each pixel
\* (x, y) of the width x height destination receives pixel (x mod 4, y mod 4)
\* of block (x div 4, y div 4), directly or through the temporary block used
\* for partial blocks at the right and bottom edges.
DecompressDXT(src, width, height, format) ==
    LET blocksX == (width + 3) \div 4
        bsz == DXTBlockBytes(format)
        Block(bx, by) ==
            LET b == Slice(src, (by * blocksX + bx) * bsz, bsz)
            IN  CASE format = IMAGE_FORMAT_DXT1 -> DecompressDXT1Block(b, FALSE)
                  [] format = IMAGE_FORMAT_DXT1_ONEBITALPHA -> DecompressDXT1Block(b, TRUE)
                  [] format = IMAGE_FORMAT_DXT3 -> DecompressDXT3Block(b)
                  [] OTHER -> DecompressDXT5Block(b)
        blocks == [n \in 0..(blocksX * ((height + 3) \div 4) - 1) |->
                      Block(n % blocksX, n \div blocksX)]
    IN  [i \in 1..(width * height * 4) |->
            LET p == (i - 1) \div 4
                x == p % width
                y == p \div width
            IN  blocks[(y \div 4) * blocksX + (x \div 4)]
                      [((y % 4) * 4 + (x % 4)) * 4 + ((i - 1) % 4) + 1]]

(***************************************************************************)
(* VTFFormat.h: the packed 80-byte VTFHeader as bytes.                     *)
(***************************************************************************)
\* Byte offsets of the header fields read by the decoder.
OffVersionMajor == 4
OffVersionMinor == 8
OffHeaderSize == 12
OffWidth == 16
OffHeight == 18
OffFlags == 20
OffFrames == 24
OffFirstFrame == 26
OffHighResImageFormat == 52
OffMipmapCount == 56
OffLowResImageFormat == 57
OffLowResImageWidth == 61
OffLowResImageHeight == 62
OffDepth == 63

\* The bit patterns of the floats 0.5f and 1.0f, little-endian.
Float05 == <<0, 0, 0, 63>>
Float10 == <<0, 0, 128, 63>>

\* The bytes of a VTFHeader: h.signature is 4 bytes, h.versionMinor is the
\* 4 bytes of version[1], the other fields are numbers.
SerializeHeader(h) ==
    h.signature
        \o LE32(h.versionMajor) \o h.versionMinor
        \o LE32(h.headerSize)
        \o LE16(h.width % 65536) \o LE16(h.height % 65536)
        \o LE32(h.flags)
        \o LE16(h.frames) \o LE16(h.firstFrame)
        \o Zeros(4)
        \o Float05 \o Float05 \o Float05
        \o Zeros(4)
        \o Float10
        \o LE32(h.highResImageFormat)
        \o <<h.mipmapCount % 256>>
        \o LE32(h.lowResImageFormat)
        \o <<h.lowResImageWidth, h.lowResImageHeight>>
        \o LE16(h.depth)
        \o Zeros(3) \o Zeros(4) \o Zeros(8)

Signature == <<86, 84, 70, 0>>

(***************************************************************************)
(* VTFWriter.h: class VTFWriter.                                           *)
(***************************************************************************)
\* The member initialisers of a default-constructed VTFWriter.
NewWriter ==
    [ m_sourceRGBA |-> <<>>, m_width |-> 0, m_height |-> 0, m_hasAlpha |-> FALSE,
      m_mipmaps |-> <<>>, m_format |-> IMAGE_FORMAT_DXT5,
      m_flags |-> TEXTUREFLAGS_NORMAL, m_generateMipmaps |-> TRUE ]

\* SetImageData: stores the image and downgrades DXT5 to DXT1 when the image
\* has no alpha and the format held at that moment is DXT5.
SetImageDataOn(w, rgba, width, height, hasAlpha) ==
    [w EXCEPT !.m_width = width, !.m_height = height, !.m_hasAlpha = hasAlpha,
              !.m_sourceRGBA = rgba,
              !.m_format = IF ~hasAlpha /\ w.m_format = IMAGE_FORMAT_DXT5
                           THEN IMAGE_FORMAT_DXT1 ELSE w.m_format]

SetFormatOn(w, format) == [w EXCEPT !.m_format = format]

SetFlagsOn(w, flags) == [w EXCEPT !.m_flags = flags]

SetGenerateMipmapsOn(w, generate) == [w EXCEPT !.m_generateMipmaps = generate]

\* A downscale that copies the top-left pixel of each footprint.
DownscaleTopLeft(src, mipWidth, mipHeight) ==
    LET newWidth == HalfDim(mipWidth)
        newHeight == HalfDim(mipHeight)
    IN  [i \in 1..(newWidth * newHeight * 4) |->
            LET c == (i - 1) % 4
                x == ((i - 1) \div 4) % newWidth
                y == ((i - 1) \div 4) \div newWidth
            IN  At(src, ((y * 2) * mipWidth + (x * 2)) * 4 + c)]

\* The box filter of GenerateMipmaps: one level from the previous one.
Downscale(src, mipWidth, mipHeight) ==
    LET newWidth == HalfDim(mipWidth)
        newHeight == HalfDim(mipHeight)
    IN  [i \in 1..(newWidth * newHeight * 4) |->
            LET c == (i - 1) % 4
                x == ((i - 1) \div 4) % newWidth
                y == ((i - 1) \div 4) \div newWidth
                srcX == x * 2
                srcY == y * 2
                \* the (dx, dy) the two nested loops visit
                foot == {d \in (0..1) \X (0..1) :
                            srcY + d[2] < mipHeight /\ srcX + d[1] < mipWidth}
                Val(d) == IF d \in foot
                          THEN At(src, ((srcY + d[2]) * mipWidth + (srcX + d[1])) * 4 + c)
                          ELSE 0
                sum == Val(<<0, 0>>) + Val(<<1, 0>>) + Val(<<0, 1>>) + Val(<<1, 1>>)
            IN  sum \div Cardinality(foot)]

\* A loop that stops as soon as either dimension has reached 1.
RECURSIVE MipLoopUntilEitherOne(_, _, _)
MipLoopUntilEitherOne(mips, mipWidth, mipHeight) ==
    IF mipWidth > 1 /\ mipHeight > 1
    THEN MipLoopUntilEitherOne(Append(mips, Downscale(mips[Len(mips)], mipWidth, mipHeight)),
                               HalfDim(mipWidth), HalfDim(mipHeight))
    ELSE mips

\* The while loop of GenerateMipmaps, appending levels to mips.
RECURSIVE MipLoop(_, _, _)
MipLoop(mips, mipWidth, mipHeight) ==
    IF mipWidth > 1 \/ mipHeight > 1
    THEN MipLoop(Append(mips, Downscale(mips[Len(mips)], mipWidth, mipHeight)),
                 HalfDim(mipWidth), HalfDim(mipHeight))
    ELSE mips

\* A pyramid builder that ignores m_generateMipmaps.
GenerateMipmapsAlways(w) == MipLoop(<<w.m_sourceRGBA>>, w.m_width, w.m_height)

\* GenerateMipmaps: the new value of m_mipmaps.
GenerateMipmaps(w) ==
    IF ~w.m_generateMipmaps THEN <<w.m_sourceRGBA>>
    ELSE MipLoop(<<w.m_sourceRGBA>>, w.m_width, w.m_height)

\* The 4x4 block (bx, by) CompressImage extracts: pixels outside the image
\* are zero-filled.
ExtractBlock(rgba, width, height, bx, by) ==
    [i \in 1..64 |->
        LET p == (i - 1) \div 4
            srcX == bx * 4 + (p % 4)
            srcY == by * 4 + (p \div 4)
        IN  IF srcX < width /\ srcY < height
            THEN At(rgba, (srcY * width + srcX) * 4 + ((i - 1) % 4))
            ELSE 0]

\* A conversion that copies the channels in RGBA order for every format,
\* dropping alpha for the 3-byte formats.
ConvertFromRGBAUnswapped(rgba, width, height, format) ==
    LET pixelCount == width * height
        bpp == GetBytesPerPixel(format)
    IN  CASE format \in {IMAGE_FORMAT_RGBA8888, IMAGE_FORMAT_BGRA8888} ->
                Slice(rgba, 0, pixelCount * 4)
          [] format \in {IMAGE_FORMAT_RGB888, IMAGE_FORMAT_BGR888} ->
                [i \in 1..(pixelCount * 3) |-> At(rgba, ((i - 1) \div 3) * 4 + ((i - 1) % 3))]
          [] OTHER -> Zeros(pixelCount * bpp)

\* ConvertFromRGBA into a zero-initialised buffer of width*height*bpp bytes:
\* four formats are written, every other format leaves the buffer as it is.
ConvertFromRGBA(rgba, width, height, format) ==
    LET pixelCount == width * height
        bpp == GetBytesPerPixel(format)
    IN  CASE format = IMAGE_FORMAT_RGBA8888 -> Slice(rgba, 0, pixelCount * 4)
          [] format = IMAGE_FORMAT_BGRA8888 ->
                [i \in 1..(pixelCount * 4) |->
                    LET p == (i - 1) \div 4
                        k == (i - 1) % 4
                    IN  At(rgba, p * 4 + (CASE k = 0 -> 2 [] k = 1 -> 1 [] k = 2 -> 0
                                            [] OTHER -> 3))]
          [] format = IMAGE_FORMAT_RGB888 ->
                [i \in 1..(pixelCount * 3) |-> At(rgba, ((i - 1) \div 3) * 4 + ((i - 1) % 3))]
          [] format = IMAGE_FORMAT_BGR888 ->
                [i \in 1..(pixelCount * 3) |->
                    At(rgba, ((i - 1) \div 3) * 4 + (2 - ((i - 1) % 3)))]
          [] OTHER -> Zeros(pixelCount * bpp)

\* CompressImage: the bytes of one mip level in the writer's format.
CompressImage(rgba, width, height, format) ==
    LET blocksX == (width + 3) \div 4
        blocksY == (height + 3) \div 4
        Blk(n) == ExtractBlock(rgba, width, height, n % blocksX, n \div blocksX)
    IN  IF format \in {IMAGE_FORMAT_DXT1, IMAGE_FORMAT_DXT1_ONEBITALPHA}
        THEN Concat([n \in 1..(blocksX * blocksY) |-> CompressDXT1Block(Blk(n - 1))])
        ELSE IF format = IMAGE_FORMAT_DXT5
        THEN Concat([n \in 1..(blocksX * blocksY) |-> CompressDXT5Block(Blk(n - 1))])
        ELSE ConvertFromRGBA(rgba, width, height, format)

\* The dimension of the level after level mip.
MipDimNextLevel(d, mip) == Max2(1, d \div Pow2(mip + 1))

\* The dimension WriteToMemory passes to CompressImage for level mip:
\* m_width >> mip, raised to 1.
MipDim(d, mip) == Max2(1, d \div Pow2(mip))

\* The length of the full mip chain of a width x height image.
RECURSIVE ChainLength(_, _)
ChainLength(width, height) ==
    IF width > 1 \/ height > 1 THEN 1 + ChainLength(HalfDim(width), HalfDim(height)) ELSE 1

\* A header whose mipmapCount is the length of the full chain, whether or
\* not the levels were generated.
WriterHeaderFullChain(w, mips) ==
    SerializeHeader(
        [ signature |-> Signature, versionMajor |-> 7, versionMinor |-> LE32(2),
          headerSize |-> 80, width |-> w.m_width, height |-> w.m_height,
          flags |-> w.m_flags, frames |-> 1, firstFrame |-> 0,
          highResImageFormat |-> w.m_format,
          mipmapCount |-> ChainLength(w.m_width, w.m_height),
          lowResImageFormat |-> IMAGE_FORMAT_NONE,
          lowResImageWidth |-> 0, lowResImageHeight |-> 0, depth |-> 1 ])

\* The header WriteToMemory builds.
WriterHeader(w, mips) ==
    SerializeHeader(
        [ signature |-> Signature, versionMajor |-> 7, versionMinor |-> LE32(2),
          headerSize |-> 80, width |-> w.m_width, height |-> w.m_height,
          flags |-> w.m_flags, frames |-> 1, firstFrame |-> 0,
          highResImageFormat |-> w.m_format, mipmapCount |-> Len(mips),
          lowResImageFormat |-> IMAGE_FORMAT_NONE,
          lowResImageWidth |-> 0, lowResImageHeight |-> 0, depth |-> 1 ])

\* A writer loop that emits the levels largest first (level 0 directly after
\* the header); the layout property below tells it from the code's loop.
RECURSIVE WriteMipsAscending(_, _, _, _)
WriteMipsAscending(w, mips, mip, out) ==
    IF mip < 0 THEN out
    ELSE WriteMipsAscending(w, mips, mip - 1, out)
            \o CompressImage(mips[mip + 1], MipDim(w.m_width, mip),
                             MipDim(w.m_height, mip), w.m_format)

\* The loop of WriteToMemory "for (mip = size-1; mip >= 0; mip--)": appends
\* the encoding of level mip to out and goes on to level mip - 1.
RECURSIVE WriteMips(_, _, _, _)
WriteMips(w, mips, mip, out) ==
    IF mip < 0 THEN out
    ELSE WriteMips(w, mips, mip - 1,
                   out \o CompressImage(mips[mip + 1], MipDim(w.m_width, mip),
                                        MipDim(w.m_height, mip), w.m_format))

\* WriteToMemory: the bytes left in the output vector.
WriteToMemoryBytes(w, mips) == WriteMips(w, mips, Len(mips) - 1, WriterHeader(w, mips))

(***************************************************************************)
(* VTFLoader.h: class VTFLoader.                                           *)
(***************************************************************************)
\* The member initialisers of a default-constructed VTFLoader.  m_error is
\* a tuple: empty, or the message followed by the numbers it prints.
NewLoader ==
    [ m_width |-> 0, m_height |-> 0, m_frameCount |-> 0, m_mipmapCount |-> 0,
      m_hasAlpha |-> FALSE, m_format |-> IMAGE_FORMAT_NONE,
      m_versionMajor |-> 0, m_versionMinor |-> 0,
      m_rgbaData |-> <<>>, m_error |-> <<>> ]

ErrTooSmall == <<"File too small for VTF header">>
ErrSignature == <<"Invalid VTF signature">>
ErrVersion(major, minor) == <<"Unsupported VTF version: ", major, minor>>
ErrTruncated == <<"File truncated - not enough image data">>
ErrFormat(format) == <<"Unsupported image format: ", format>>

\* The version test of ParseHeader on the two int members.
VersionRejected(major, minor) == major # 7 \/ minor > 5

\* ParseHeader: [ok, loader].
ParseHeader(l, buf) ==
    IF Len(buf) < HeaderBytes
    THEN [ok |-> FALSE, loader |-> [l EXCEPT !.m_error = ErrTooSmall]]
    ELSE IF Slice(buf, 0, 4) # Signature
    THEN [ok |-> FALSE, loader |-> [l EXCEPT !.m_error = ErrSignature]]
    ELSE LET major == ReadI32(buf, OffVersionMajor)
             minor == ReadI32(buf, OffVersionMinor)
             l1 == [l EXCEPT !.m_versionMajor = major, !.m_versionMinor = minor]
         IN  IF VersionRejected(major, minor)
             THEN [ok |-> FALSE, loader |-> [l1 EXCEPT !.m_error = ErrVersion(major, minor)]]
             ELSE LET format == ReadI32(buf, OffHighResImageFormat)
                      frames == ReadU16(buf, OffFrames)
                      mips == ReadU8(buf, OffMipmapCount)
                  IN  [ok |-> TRUE,
                       loader |-> [l1 EXCEPT !.m_width = ReadU16(buf, OffWidth),
                                             !.m_height = ReadU16(buf, OffHeight),
                                             !.m_frameCount = IF frames < 1 THEN 1 ELSE frames,
                                             !.m_mipmapCount = IF mips < 1 THEN 1 ELSE mips,
                                             !.m_format = format,
                                             !.m_hasAlpha = FormatHasAlpha(format)]]

\* dataOffset of DecodeImage: headerSize plus the thumbnail when present.
DataOffset(buf) ==
    LET lowFormat == ReadI32(buf, OffLowResImageFormat)
        lowWidth == ReadU8(buf, OffLowResImageWidth)
        lowHeight == ReadU8(buf, OffLowResImageHeight)
    IN  ReadU32(buf, OffHeaderSize)
            + (IF lowFormat # IMAGE_FORMAT_NONE /\ lowWidth > 0 /\ lowHeight > 0
               THEN CalculateImageSize(lowWidth, lowHeight, lowFormat) ELSE 0)

\* A size loop that counts one frame per level whatever the frame count is.
RECURSIVE ImageDataSizeOneFrame(_, _, _, _, _)
ImageDataSizeOneFrame(mip, mipWidth, mipHeight, format, frameCount) ==
    IF mip < 0 THEN 0
    ELSE CalculateImageSize(mipWidth, mipHeight, format)
            + ImageDataSizeOneFrame(mip - 1, HalfDim(mipWidth), HalfDim(mipHeight), format,
                                    frameCount)

\* The first loop of DecodeImage "for (mip = count-1; mip >= 0; mip--)":
\* the size of all mip levels and frames.
RECURSIVE ImageDataSize(_, _, _, _, _)
ImageDataSize(mip, mipWidth, mipHeight, format, frameCount) ==
    IF mip < 0 THEN 0
    ELSE CalculateImageSize(mipWidth, mipHeight, format) * frameCount
            + ImageDataSize(mip - 1, HalfDim(mipWidth), HalfDim(mipHeight), format, frameCount)

\* A skip loop that adds the size of a level before it halves the
\* dimensions, as the size loop does.
RECURSIVE SkipSmallerMipsUnhalved(_, _, _, _, _)
SkipSmallerMipsUnhalved(mip, mipWidth, mipHeight, format, frameCount) ==
    IF mip <= 0 THEN 0
    ELSE CalculateImageSize(mipWidth, mipHeight, format) * frameCount
            + SkipSmallerMipsUnhalved(mip - 1, HalfDim(mipWidth), HalfDim(mipHeight), format,
                                      frameCount)

\* The second loop of DecodeImage "for (mip = count-1; mip > 0; mip--)":
\* halve first, then add the size of the halved level.
RECURSIVE SkipSmallerMips(_, _, _, _, _)
SkipSmallerMips(mip, mipWidth, mipHeight, format, frameCount) ==
    IF mip <= 0 THEN 0
    ELSE CalculateImageSize(HalfDim(mipWidth), HalfDim(mipHeight), format) * frameCount
            + SkipSmallerMips(mip - 1, HalfDim(mipWidth), HalfDim(mipHeight), format,
                              frameCount)

\* An offset that skips no level: it reads mip 0 where the data starts.
MipZeroOffsetNoSkip(l, buf) == DataOffset(buf)

\* The offset of mip 0, frame 0 in the buffer.
MipZeroOffset(l, buf) ==
    DataOffset(buf)
        + SkipSmallerMips(l.m_mipmapCount - 1, l.m_width, l.m_height, l.m_format,
                          l.m_frameCount)

\* The truncation test of DecodeImage, "dataOffset + imageDataSize > srcSize"
\* on size_t: a sum below zero stands for a value above 2^63.
IsTruncated(l, buf) ==
    LET needed == DataOffset(buf)
                    + ImageDataSize(l.m_mipmapCount - 1, l.m_width, l.m_height, l.m_format,
                                    l.m_frameCount)
    IN  needed < 0 \/ needed > Len(buf)

\* A fill colour with the red channel left at zero.
MagentaWithoutRed == <<0, 0, 255, 255>>

\* The pixel ConvertToRGBA fills the output with for a format it has no case for.
Magenta == <<255, 0, 255, 255>>

\* The formats ConvertToRGBA has a case for.
DecoderFormats ==
    {IMAGE_FORMAT_RGBA8888, IMAGE_FORMAT_ABGR8888, IMAGE_FORMAT_RGB888, IMAGE_FORMAT_BGR888,
     IMAGE_FORMAT_ARGB8888, IMAGE_FORMAT_BGRA8888, IMAGE_FORMAT_BGRX8888,
     IMAGE_FORMAT_DXT1, IMAGE_FORMAT_DXT1_ONEBITALPHA, IMAGE_FORMAT_DXT3, IMAGE_FORMAT_DXT5,
     IMAGE_FORMAT_I8, IMAGE_FORMAT_IA88, IMAGE_FORMAT_A8}

\* ConvertToRGBA: the width*height*4 bytes written to dst from the source
\* bytes starting at offset off of buf.
ConvertToRGBA(buf, off, width, height, format) ==
    LET n == IntMul(IntMul(width, height), 4)
        \* source byte k of pixel p for a format of bpp bytes per pixel
        S(p, bpp, k) == At(buf, off + p * bpp + k)
        Px(F(_, _)) == [i \in 1..n |-> F((i - 1) \div 4, (i - 1) % 4)]
        Abgr(p, c) == S(p, 4, 3 - c)
        Rgb(p, c) == IF c = 3 THEN 255 ELSE S(p, 3, c)
        Bgr(p, c) == IF c = 3 THEN 255 ELSE S(p, 3, 2 - c)
        Argb(p, c) == IF c = 3 THEN S(p, 4, 0) ELSE S(p, 4, c + 1)
        Bgra(p, c) == IF c = 3 THEN S(p, 4, 3) ELSE S(p, 4, 2 - c)
        Bgrx(p, c) == IF c = 3 THEN 255 ELSE S(p, 4, 2 - c)
        I8(p, c) == IF c = 3 THEN 255 ELSE S(p, 1, 0)
        Ia88(p, c) == IF c = 3 THEN S(p, 2, 1) ELSE S(p, 2, 0)
        A8(p, c) == IF c = 3 THEN S(p, 1, 0) ELSE 255
        Fill(p, c) == Magenta[c + 1]
    IN  CASE format = IMAGE_FORMAT_RGBA8888 -> Slice(buf, off, n)
          [] format = IMAGE_FORMAT_ABGR8888 -> Px(Abgr)
          [] format = IMAGE_FORMAT_RGB888 -> Px(Rgb)
          [] format = IMAGE_FORMAT_BGR888 -> Px(Bgr)
          [] format = IMAGE_FORMAT_ARGB8888 -> Px(Argb)
          [] format = IMAGE_FORMAT_BGRA8888 -> Px(Bgra)
          [] format = IMAGE_FORMAT_BGRX8888 -> Px(Bgrx)
          [] format \in {IMAGE_FORMAT_DXT1, IMAGE_FORMAT_DXT1_ONEBITALPHA, IMAGE_FORMAT_DXT3,
                         IMAGE_FORMAT_DXT5} ->
                DecompressDXT(Slice(buf, off, CalculateImageSize(width, height, format)),
                              width, height, format)
          [] format = IMAGE_FORMAT_I8 -> Px(I8)
          [] format = IMAGE_FORMAT_IA88 -> Px(Ia88)
          [] format = IMAGE_FORMAT_A8 -> Px(A8)
          [] OTHER -> Px(Fill)

\* INT_MAX, which stands for every extent of 2^31 - 1 bytes or more.
Huge == (Pow2(30) - 1) * 2 + 1

\* n * k, or Huge when the product does not fit.
SatMul(n, k) == IF k = 0 \/ n <= Huge \div k THEN n * k ELSE Huge

\* The argument of m_rgbaData.resize in DecodeImage, computed in int.
ResizeArgument(l) == IntMul(IntMul(l.m_width, l.m_height), 4)

\* The end of the bytes DecompressDXT writes to dst: whole blocks are
\* decoded in place, four rows of 16 bytes each; partial blocks are copied
\* from tempBlock row by row, clipped to the image.
DXTWriteEnd(width, height) ==
    LET blocksX == (width + 3) \div 4
        blocksY == (height + 3) \div 4
        dstPitch == IntMul(width, 4)
        BlockEnd(bx, by) ==
            LET blockX == bx * 4
                blockY == by * 4
                isPartial == (blockX + 4 > width) \/ (blockY + 4 > height)
                copyWidth == IF blockX + 4 <= width THEN 4 ELSE width - blockX
                copyHeight == IF blockY + 4 <= height THEN 4 ELSE height - blockY
            IN  IF isPartial
                THEN IF copyHeight < 1 THEN 0
                     ELSE (blockY + copyHeight - 1) * dstPitch + blockX * 4 + copyWidth * 4
                ELSE (blockY + 3) * dstPitch + blockX * 4 + 16
        ends == {BlockEnd(bx, by) : bx \in 0..(blocksX - 1), by \in 0..(blocksY - 1)} \cup {0}
    IN  CHOOSE m \in ends : \A x \in ends : x <= m

\* The memory ConvertToRGBA touches: read is the number of bytes read from
\* src onwards, written the number of bytes written from dst onwards.
ConvertAccess(width, height, format) ==
    LET pixelCount == IntMul(width, height)
        loops == IF pixelCount > 0 THEN pixelCount ELSE 0
        copied == IntMul(pixelCount, 4)
        Loop(bpp) == [read |-> SatMul(loops, bpp), written |-> SatMul(loops, 4)]
    IN  CASE format = IMAGE_FORMAT_RGBA8888 ->
                \* memcpy(dst, src, pixelCount * 4), the int converted to size_t
                LET count == IF copied < 0 THEN Huge ELSE copied
                IN  [read |-> count, written |-> count]
          [] format \in {IMAGE_FORMAT_ABGR8888, IMAGE_FORMAT_ARGB8888, IMAGE_FORMAT_BGRA8888,
                         IMAGE_FORMAT_BGRX8888} -> Loop(4)
          [] format \in {IMAGE_FORMAT_RGB888, IMAGE_FORMAT_BGR888} -> Loop(3)
          [] format = IMAGE_FORMAT_IA88 -> Loop(2)
          [] format \in {IMAGE_FORMAT_I8, IMAGE_FORMAT_A8} -> Loop(1)
          [] format \in {IMAGE_FORMAT_DXT1, IMAGE_FORMAT_DXT1_ONEBITALPHA, IMAGE_FORMAT_DXT3,
                         IMAGE_FORMAT_DXT5} ->
                [read |-> SatMul(((width + 3) \div 4) * ((height + 3) \div 4),
                                 IF format \in {IMAGE_FORMAT_DXT3, IMAGE_FORMAT_DXT5}
                                 THEN 16 ELSE 8),
                 written |-> DXTWriteEnd(width, height)]
          [] OTHER -> Loop(0)

\* The memory LoadFromMemory touches behind the header: outcome is
\* "refused" when the call returns false, "throws" when resize is given a
\* negative int (a size_t above 2^63), "decoded" when ConvertToRGBA runs
\* on a destination of allocated bytes and the source bytes from offset.
LoadAccess(l, buf) ==
    LET ph == ParseHeader(l, buf)
        none == [outcome |-> "refused", loader |-> ph.loader, allocated |-> 0, offset |-> 0,
                 read |-> 0, written |-> 0]
    IN  IF ~ph.ok THEN none
        ELSE IF IsTruncated(ph.loader, buf)
        THEN [none EXCEPT !.loader = [ph.loader EXCEPT !.m_error = ErrTruncated]]
        ELSE IF ResizeArgument(ph.loader) < 0
        THEN [none EXCEPT !.outcome = "throws"]
        ELSE LET acc == ConvertAccess(ph.loader.m_width, ph.loader.m_height,
                                      ph.loader.m_format)
             IN  [outcome |-> "decoded", loader |-> ph.loader,
                  allocated |-> ResizeArgument(ph.loader),
                  offset |-> MipZeroOffset(ph.loader, buf),
                  read |-> acc.read, written |-> acc.written]

\* Whether every access of a decoding call stays inside the two buffers.
InBounds(a, size) ==
    /\ a.written <= a.allocated
    /\ a.read = 0 \/ (a.offset >= 0 /\ a.offset <= size /\ a.read <= size - a.offset)

\* DecodeImage after a successful ParseHeader: [ok, loader, offset, converted];
\* offset is where the mip-0 bytes are read (-1 when the call returns before),
\* converted tells whether ConvertToRGBA ran.
DecodeImage(l, buf) ==
    IF IsTruncated(l, buf)
    THEN [ok |-> FALSE, loader |-> [l EXCEPT !.m_error = ErrTruncated],
          offset |-> -1, converted |-> FALSE]
    ELSE LET offset == MipZeroOffset(l, buf)
         IN  [ok |-> TRUE,
              loader |-> [l EXCEPT
                  !.m_rgbaData = ConvertToRGBA(buf, offset, l.m_width, l.m_height, l.m_format),
                  !.m_error = IF l.m_format \in DecoderFormats THEN l.m_error
                              ELSE ErrFormat(l.m_format)],
              offset |-> offset, converted |-> TRUE]

\* LoadFromMemory: ParseHeader, then DecodeImage.
LoadFromMemory(l, buf) ==
    LET ph == ParseHeader(l, buf)
    IN  IF ~ph.ok
        THEN [ok |-> FALSE, loader |-> ph.loader, offset |-> -1, converted |-> FALSE]
        ELSE DecodeImage(ph.loader, buf)

(***************************************************************************)
(* Inputs.                                                                 *)
(***************************************************************************)
\* Source images: every size 1..MaxDim x 1..MaxDim with seeded pixel bytes.
\* An even seed gives alpha values 0 and 255 only, an odd seed any alpha.
Seeds == {0, 1}

TestPixels(width, height, seed) ==
    [i \in 1..(width * height * 4) |->
        IF (i - 1) % 4 = 3
        THEN IF seed % 2 = 0
             THEN (IF ((i - 1) \div 4 + seed \div 2) % 3 = 0 THEN 0 ELSE 255)
             ELSE (i * 29 + 7 + seed) % 256
        ELSE (i * (53 + 2 * seed) + 17 + 5 * seed) % 256]

\* The 6x6 image of the documented mip chain 6x6, 3x3, 1x1.
ChainExample == [width |-> 6, height |-> 6, rgba |-> TestPixels(6, 6, 0)]

Images ==
    {[width |-> w, height |-> h, rgba |-> TestPixels(w, h, sd)] :
        w \in 1..MaxDim, h \in 1..MaxDim, sd \in Seeds}
    \cup {ChainExample}

\* Formats handed to SetFormat: those the encoder implements and values of
\* the enum it has no encoding for.
WriterFormats ==
    {IMAGE_FORMAT_RGBA8888, IMAGE_FORMAT_BGRA8888, IMAGE_FORMAT_RGB888, IMAGE_FORMAT_BGR888,
     IMAGE_FORMAT_DXT1, IMAGE_FORMAT_DXT1_ONEBITALPHA, IMAGE_FORMAT_DXT5,
     IMAGE_FORMAT_DXT3, IMAGE_FORMAT_RGB565}

FlagChoices == {TEXTUREFLAGS_NORMAL, TEXTUREFLAGS_NOMIP + TEXTUREFLAGS_EIGHTBITALPHA}

\* The formats of the options dialog's combo box.
ExportFormats ==
    {IMAGE_FORMAT_DXT1, IMAGE_FORMAT_DXT5, IMAGE_FORMAT_RGBA8888, IMAGE_FORMAT_BGRA8888}

\* The export flags the dialog stores for a format and the mipmap toggle
\* (no other checkbox ticked).
ExportFlags(format, generateMipmaps) ==
    (IF generateMipmaps THEN 0 ELSE TEXTUREFLAGS_NOMIP)
        + (IF format \in {IMAGE_FORMAT_DXT5, IMAGE_FORMAT_RGBA8888}
           THEN TEXTUREFLAGS_EIGHTBITALPHA
           ELSE IF format = IMAGE_FORMAT_DXT1 THEN TEXTUREFLAGS_ONEBITALPHA ELSE 0)

\* The plugin's globals when PluginMain first allocates VTFPluginData: the
\* members of gData, the sticky statics, *gResult, and the fields of the
\* format record the plugin reads or sets.  selector is the selector last
\* dispatched and dialogResult what DialogBoxParamA last returned.
NewPlugin ==
    [ exportFormat |-> IMAGE_FORMAT_DXT5, generateMipmaps |-> TRUE,
      flags |-> TEXTUREFLAGS_NORMAL + TEXTUREFLAGS_EIGHTBITALPHA,
      s_lastFormat |-> IMAGE_FORMAT_DXT5,
      s_lastFlags |-> TEXTUREFLAGS_NORMAL + TEXTUREFLAGS_EIGHTBITALPHA,
      s_lastMipmaps |-> TRUE,
      gResult |-> "noErr", selector |-> "none", dialogResult |-> "none",
      fileData |-> <<>>, hasLoader |-> FALSE,
      imageSize |-> [h |-> 0, v |-> 0], planes |-> 0,
      minDataBytes |-> 0, maxDataBytes |-> 0 ]

\* No free function has been called yet.
NoProbe == [op |-> "none"]

\* No LoadFromMemory call has been made yet.
NoCall == [result |-> "none", before |-> NewLoader, offset |-> -1, converted |-> FALSE]

\* The record kept of a LoadFromMemory call that returned r on loader l.
CallRecord(l, r) ==
    [result |-> IF r.ok THEN "ok" ELSE "fail", before |-> l, offset |-> r.offset,
     converted |-> r.converted]

(***************************************************************************)
(* Spec: a VTFWriter is configured through its setters in any order (or    *)
(* driven by the plugin's DoWriteContinue), WriteToMemory emits the        *)
(* stream, and a VTFLoader loads the emitted stream.                       *)
(***************************************************************************)
Init ==
    /\ writer = NewWriter
    /\ requested = NewWriter.m_format
    /\ output = <<>>
    /\ loader = NewLoader
    /\ data = <<>>
    /\ ret = NoCall
    /\ pc = "new"
    /\ probe = NoProbe
    /\ plugin = NewPlugin

SetImageData ==
    /\ pc \in {"new", "config"}
    /\ \E img \in Images, hasAlpha \in BOOLEAN :
          writer' = SetImageDataOn(writer, img.rgba, img.width, img.height, hasAlpha)
    /\ pc' = "config"
    /\ UNCHANGED <<requested, output, loader, data, ret, probe, plugin>>

SetFormat ==
    /\ pc \in {"new", "config"}
    /\ \E format \in WriterFormats :
          /\ writer' = SetFormatOn(writer, format)
          /\ requested' = format
    /\ pc' = "config"
    /\ UNCHANGED <<output, loader, data, ret, probe, plugin>>

SetFlags ==
    /\ pc \in {"new", "config"}
    /\ \E flags \in FlagChoices : writer' = SetFlagsOn(writer, flags)
    /\ pc' = "config"
    /\ UNCHANGED <<requested, output, loader, data, ret, probe, plugin>>

SetGenerateMipmaps ==
    /\ pc \in {"new", "config"}
    /\ \E generate \in BOOLEAN : writer' = SetGenerateMipmapsOn(writer, generate)
    /\ pc' = "config"
    /\ UNCHANGED <<requested, output, loader, data, ret, probe, plugin>>

\* WriteToMemory on a writer that holds an image.
WriteToMemory ==
    /\ pc = "config"
    /\ writer.m_width >= 1 /\ writer.m_height >= 1
    /\ LET mips == GenerateMipmaps(writer)
       IN  /\ writer' = [writer EXCEPT !.m_mipmaps = mips]
           /\ output' = WriteToMemoryBytes(writer, mips)
    /\ pc' = "written"
    /\ UNCHANGED <<requested, loader, data, ret, probe, plugin>>

\* The interleaved-to-RGBA conversion of DoWriteContinue: alpha is taken
\* from the document when it has 4 planes and is 255 otherwise.
PluginRGBA(rgba, hasAlpha) ==
    [i \in 1..Len(rgba) |-> IF (i - 1) % 4 = 3 /\ ~hasAlpha THEN 255 ELSE rgba[i]]

\* The writer DoWriteContinue sets up before it calls WriteToMemory.
PluginWriter(rgba, width, height, hasAlpha, exportFormat, generateMipmaps, flags) ==
    SetFlagsOn(
        SetGenerateMipmapsOn(
            SetFormatOn(
                SetImageDataOn(NewWriter, rgba, width, height, hasAlpha),
                exportFormat),
            generateMipmaps),
        flags)

\* DoWriteContinue of the plugin: a new writer, SetImageData, SetFormat,
\* SetGenerateMipmaps, SetFlags, WriteToMemory.
DoWriteContinue ==
    /\ pc = "new"
    /\ \E img \in Images, planes \in {3, 4}, exportFormat \in ExportFormats,
          generateMipmaps \in BOOLEAN :
          LET hasAlpha == planes > 3
              w == PluginWriter(PluginRGBA(img.rgba, hasAlpha), img.width, img.height,
                                hasAlpha, exportFormat, generateMipmaps,
                                ExportFlags(exportFormat, generateMipmaps))
              mips == GenerateMipmaps(w)
          IN  /\ writer' = [w EXCEPT !.m_mipmaps = mips]
              /\ output' = WriteToMemoryBytes(w, mips)
              /\ requested' = exportFormat
    /\ pc' = "written"
    /\ UNCHANGED <<loader, data, ret, probe, plugin>>

\* LoadFromMemory on the stream the writer emitted.
LoadWritten ==
    /\ pc = "written"
    /\ LET r == LoadFromMemory(loader, output)
       IN  /\ loader' = r.loader
           /\ ret' = CallRecord(loader, r)
    /\ data' = output
    /\ pc' = "loaded"
    /\ UNCHANGED <<writer, requested, output, probe, plugin>>

Next ==
    \/ SetImageData
    \/ SetFormat
    \/ SetFlags
    \/ SetGenerateMipmaps
    \/ WriteToMemory
    \/ DoWriteContinue
    \/ LoadWritten

Spec == Init /\ [][Next]_vars

(***************************************************************************)
(* SpecLoad: one VTFLoader is handed buffers with arbitrary headers, first *)
(* any crafted buffer, then a second buffer on the same loader.            *)
(***************************************************************************)
\* Body bytes of a crafted buffer: byte i of the file, for i >= 80.
BodyByte(i) == (i * 37 + 11) % 256

XTF == <<88, 84, 70, 0>>

\* version[1] values as stored bytes: 0, 2, 5, 6, 2^31 and 2^32 - 1.
MinorChoices == {LE32(0), LE32(2), LE32(5), LE32(6), <<0, 0, 0, 128>>, <<255, 255, 255, 255>>}

\* Header sizes and thumbnails: none, a 16x16 DXT1 thumbnail, a thumbnail
\* format with a zero width behind a longer header.
Layouts ==
    { [headerSize |-> 80, lowFormat |-> IMAGE_FORMAT_NONE, lowWidth |-> 0, lowHeight |-> 0],
      [headerSize |-> 80, lowFormat |-> IMAGE_FORMAT_DXT1, lowWidth |-> 16, lowHeight |-> 16],
      [headerSize |-> 96, lowFormat |-> IMAGE_FORMAT_DXT1, lowWidth |-> 0, lowHeight |-> 16] }

\* A format value outside the enum.
UnknownFormats == {99}

HeaderFormats ==
    {IMAGE_FORMAT_RGBA8888, IMAGE_FORMAT_DXT1, IMAGE_FORMAT_RGB565} \cup UnknownFormats

CraftedHeader(sig, major, minor, lay, width, height, frames, mips, format) ==
    [ signature |-> sig, versionMajor |-> major, versionMinor |-> minor,
      headerSize |-> lay.headerSize, width |-> width, height |-> height,
      flags |-> 0, frames |-> frames, firstFrame |-> 0,
      highResImageFormat |-> format, mipmapCount |-> mips,
      lowResImageFormat |-> lay.lowFormat,
      lowResImageWidth |-> lay.lowWidth, lowResImageHeight |-> lay.lowHeight, depth |-> 1 ]

\* The bytes a file with header h needs: header, thumbnail, every level of
\* every frame.
RECURSIVE LevelBytes(_, _, _, _)
LevelBytes(k, width, height, format) ==
    IF k < 0 THEN 0
    ELSE CalculateImageSize(MipDim(width, k), MipDim(height, k), format)
            + LevelBytes(k - 1, width, height, format)

FileBytesNeeded(h) ==
    h.headerSize
        + (IF h.lowResImageFormat # IMAGE_FORMAT_NONE /\ h.lowResImageWidth > 0
                /\ h.lowResImageHeight > 0
           THEN CalculateImageSize(h.lowResImageWidth, h.lowResImageHeight,
                                   h.lowResImageFormat)
           ELSE 0)
        + Max2(1, h.frames) * LevelBytes(Max2(1, h.mipmapCount) - 1, h.width, h.height,
                                         h.highResImageFormat)

\* The file of header h, cut to size bytes.
CraftedFile(h, size) ==
    LET hdr == SerializeHeader(h)
    IN  [i \in 1..size |-> IF i <= HeaderBytes THEN hdr[i] ELSE BodyByte(i - 1)]

BaseLayout == [headerSize |-> 80, lowFormat |-> IMAGE_FORMAT_NONE, lowWidth |-> 0,
               lowHeight |-> 0]

\* Files that vary signature, version and a size below or at the header size.
HeaderStageFiles ==
    { CraftedFile(CraftedHeader(sig, major, minor, BaseLayout, 1, 1, 1, 1,
                                IMAGE_FORMAT_RGBA8888), size) :
        sig \in {Signature, XTF}, major \in {7, 8}, minor \in MinorChoices,
        size \in {HeaderBytes - 1, HeaderBytes + 4} }

\* Files with an accepted header that vary the geometry; cut = 1 removes the
\* last needed byte.
BodyStageFiles ==
    { LET h == CraftedHeader(Signature, 7, LE32(2), lay, width, height, frames, mips, format)
      IN  CraftedFile(h, Max2(HeaderBytes, FileBytesNeeded(h) - cut)) :
        lay \in Layouts, width \in 0..MaxHdrDim, height \in 0..MaxHdrDim,
        frames \in 0..MaxFrames, mips \in 0..MaxMips, format \in HeaderFormats,
        cut \in {0, 1} }

CraftedFiles == HeaderStageFiles \cup BodyStageFiles

\* Second buffers: one of each outcome.
ProbeFiles ==
    { CraftedFile(CraftedHeader(sig, v[1], v[2], BaseLayout, d[1], d[2], 1, d[3], format), d[4]) :
        sig \in {Signature, XTF},
        v \in {<<7, LE32(2)>>, <<8, LE32(0)>>},
        d \in {<<1, 1, 1, HeaderBytes - 1>>, <<1, 1, 1, HeaderBytes + 4>>,
               <<2, 2, 2, HeaderBytes + 16>>, <<2, 1, 1, HeaderBytes + 8>>},
        format \in {IMAGE_FORMAT_RGBA8888} \cup UnknownFormats }

LoadCrafted ==
    /\ pc = "new"
    /\ \E buf \in CraftedFiles :
          LET r == LoadFromMemory(loader, buf)
          IN  /\ loader' = r.loader
              /\ ret' = CallRecord(loader, r)
              /\ data' = buf
    /\ pc' = "loaded"
    /\ UNCHANGED <<writer, requested, output, probe, plugin>>

LoadAgain ==
    /\ pc = "loaded"
    /\ \E buf \in ProbeFiles :
          LET r == LoadFromMemory(loader, buf)
          IN  /\ loader' = r.loader
              /\ ret' = CallRecord(loader, r)
              /\ data' = buf
    /\ pc' = "reloaded"
    /\ UNCHANGED <<writer, requested, output, probe, plugin>>

NextLoad == LoadCrafted \/ LoadAgain

SpecLoad == Init /\ [][NextLoad]_vars

(***************************************************************************)
(* SpecAccess: LoadFromMemory on crafted buffers, observed through the     *)
(* memory it touches.                                                      *)
(***************************************************************************)
\* Header dimensions whose products leave the range of int.
LargeHdrDims == {Pow2(15), Pow2(16) - 1}

AccessFormats == DecoderFormats \cup {IMAGE_FORMAT_RGB565} \cup UnknownFormats

LargeFormats == {IMAGE_FORMAT_RGBA8888, IMAGE_FORMAT_ABGR8888} \cup UnknownFormats

\* Buffers with an accepted header: every geometry up to MaxDim, whole or
\* one byte short, and headers of large dimensions with a short body.
AccessFiles ==
    { LET h == CraftedHeader(Signature, 7, LE32(2), lay, width, height, frames, mips, format)
      IN  CraftedFile(h, Max2(HeaderBytes, FileBytesNeeded(h) - cut)) :
        lay \in Layouts, width \in 0..MaxDim, height \in 0..MaxDim,
        frames \in {1, MaxFrames}, mips \in {1, MaxMips}, format \in AccessFormats,
        cut \in {0, 1} }
    \cup
    { CraftedFile(CraftedHeader(Signature, 7, LE32(2), BaseLayout, width, height, frames, 1,
                                format), HeaderBytes + extra) :
        width \in LargeHdrDims, height \in LargeHdrDims, frames \in 1..MaxFrames,
        format \in LargeFormats, extra \in {0, 16} }

\* LoadFromMemory on a new loader.  A call whose accesses stay in bounds
\* runs to its end; one that reads or writes outside a buffer stops with an
\* access fault, and one whose resize throws leaves by the exception.
LoadObserved ==
    /\ pc = "new"
    /\ \E buf \in AccessFiles : \E a \in {LoadAccess(loader, buf)} :
          LET whole == a.outcome # "decoded" \/ InBounds(a, Len(buf))
              r == IF a.outcome = "decoded" /\ whole THEN LoadFromMemory(loader, buf)
                   ELSE [ok |-> FALSE, loader |-> a.loader, offset |-> -1,
                         converted |-> FALSE]
          IN  /\ probe' = [op |-> "LoadFromMemory", size |-> Len(buf), outcome |-> a.outcome,
                            allocated |-> a.allocated, offset |-> a.offset,
                            read |-> a.read, written |-> a.written]
              /\ loader' = r.loader
              /\ ret' = CallRecord(loader, r)
              /\ data' = buf
              /\ pc' = IF whole THEN (IF a.outcome = "throws" THEN "thrown" ELSE "loaded")
                       ELSE "fault"
    /\ UNCHANGED <<writer, requested, output, plugin>>

NextAccess == LoadObserved

SpecAccess == Init /\ [][NextAccess]_vars

(***************************************************************************)
(* SpecPlugin: the host calls the plugin's selectors on one VTFPluginData. *)
(***************************************************************************)
\* ReadSome(count, buffer) at file position 0: PSSDKRead fills the buffer
\* when the file holds count bytes; otherwise it stores the first
\* delivered bytes and the result is an error.
ReadSome(count, buffer, file, delivered) ==
    IF Len(file) >= count
    THEN [gResult |-> "noErr", buffer |-> Slice(file, 0, count)]
    ELSE [gResult |-> "eofErr",
          buffer |-> [i \in 1..Len(buffer) |-> IF i <= delivered THEN file[i] ELSE buffer[i]]]

\* DoReadStart on a file: [gResult, fileData, loaded, result]; loaded tells
\* whether LoadFromMemory ran, result is what it returned.
DoReadStartOn(l, file, delivered) ==
    LET hdr == ReadSome(HeaderBytes, Zeros(HeaderBytes), file, 0)
        header == hdr.buffer
        stop(err) == [gResult |-> err, fileData |-> <<>>, loaded |-> FALSE,
                      result |-> [ok |-> FALSE, loader |-> l, offset |-> -1,
                                  converted |-> FALSE]]
    IN  IF hdr.gResult # "noErr" THEN stop(hdr.gResult)
        ELSE IF Slice(header, 0, 4) # Signature THEN stop("formatCannotRead")
        ELSE IF At(header, OffVersionMajor) # 7 \/ Slice(header, OffVersionMajor + 1, 3) # Zeros(3)
                \/ At(header, OffVersionMinor) > 5
                \/ Slice(header, OffVersionMinor + 1, 3) # Zeros(3)
        THEN stop("formatCannotRead")
        ELSE LET frames == ReadU16(header, OffFrames)
                 mips == ReadU8(header, OffMipmapCount)
                 frameCount == IF frames < 1 THEN 1 ELSE frames
                 mipmapCount == IF mips < 1 THEN 1 ELSE mips
                 totalSize == DataOffset(header)
                                + ImageDataSize(mipmapCount - 1, ReadU16(header, OffWidth),
                                                ReadU16(header, OffHeight),
                                                ReadI32(header, OffHighResImageFormat),
                                                frameCount)
                 \* the read error is dropped: "Try reading what we can"
                 fileData == ReadSome(totalSize, Zeros(totalSize), file, delivered).buffer
                 r == LoadFromMemory(NewLoader, fileData)
             IN  [gResult |-> IF r.ok THEN "noErr" ELSE "formatCannotRead",
                  fileData |-> fileData, loaded |-> TRUE, result |-> r]

\* The files the host opens: crafted files with any header, whole or short.
PluginFiles == CraftedFiles

\* formatSelectorReadStart.  A short read delivers either nothing or the
\* bytes the file has.
DoReadStart ==
    /\ pc = "new"
    /\ \E file \in PluginFiles, delivered \in {0, 1} :
          \E r \in {DoReadStartOn(loader, file, delivered * Len(file))} :
              /\ plugin' = [plugin EXCEPT
                     !.selector = "ReadStart",
                     !.gResult = r.gResult,
                     !.fileData = r.fileData,
                     !.hasLoader = r.loaded,
                     !.imageSize = IF r.result.ok
                                   THEN [h |-> r.result.loader.m_width,
                                         v |-> r.result.loader.m_height]
                                   ELSE @,
                     !.planes = IF r.result.ok
                                THEN (IF r.result.loader.m_hasAlpha THEN 4 ELSE 3)
                                ELSE @]
              /\ loader' = r.result.loader
              /\ ret' = IF r.loaded THEN CallRecord(NewLoader, r.result) ELSE ret
              /\ data' = file
    /\ pc' = "read"
    /\ UNCHANGED <<writer, requested, output, probe>>

\* The flags VTFOptionsDlgProc collects on IDOK from the checkboxes
\* "Normal map" and "No mipmaps" (the others left unticked) and the format.
DialogFlags(fmt, normal, nomip) ==
    (IF normal THEN TEXTUREFLAGS_NORMAL ELSE 0)
        + (IF nomip THEN TEXTUREFLAGS_NOMIP ELSE 0)
        + (IF fmt \in {IMAGE_FORMAT_DXT5, IMAGE_FORMAT_RGBA8888}
           THEN TEXTUREFLAGS_EIGHTBITALPHA
           ELSE IF fmt = IMAGE_FORMAT_DXT1 THEN TEXTUREFLAGS_ONEBITALPHA ELSE 0)

\* A cancel branch that stores the controls as the OK branch does.
DlgCancelStoring(p, fmt, normal, nomip) ==
    [p EXCEPT !.exportFormat = fmt,
              !.flags = DialogFlags(fmt, normal, nomip),
              !.generateMipmaps = ~nomip,
              !.s_lastFormat = fmt,
              !.s_lastFlags = DialogFlags(fmt, normal, nomip),
              !.s_lastMipmaps = ~nomip,
              !.dialogResult = "IDCANCEL"]

\* VTFOptionsDlgProc, WM_COMMAND with IDOK: the controls are stored in gData
\* and in the sticky settings.
DlgOK(p, fmt, normal, nomip) ==
    [p EXCEPT !.exportFormat = fmt,
              !.flags = DialogFlags(fmt, normal, nomip),
              !.generateMipmaps = ~nomip,
              !.s_lastFormat = fmt,
              !.s_lastFlags = DialogFlags(fmt, normal, nomip),
              !.s_lastMipmaps = ~nomip,
              !.dialogResult = "IDOK"]

\* VTFOptionsDlgProc, WM_COMMAND with IDCANCEL: the dialog ends, nothing
\* is stored.
DlgCancel(p, fmt, normal, nomip) == [p EXCEPT !.dialogResult = "IDCANCEL"]

\* DialogBoxParamA returned -1: the export format and flags fall back to
\* their defaults.
DlgFailed(p) ==
    [p EXCEPT !.exportFormat = IMAGE_FORMAT_DXT5,
              !.flags = TEXTUREFLAGS_NORMAL + TEXTUREFLAGS_EIGHTBITALPHA,
              !.dialogResult = "failed"]

\* formatSelectorOptionsStart: the modal dialog runs and ends with OK on
\* some state of its controls, with Cancel, or cannot be created.
DoOptionsStart ==
    /\ pc \in {"new", "idle"}
    /\ \E outcome \in {"IDOK", "IDCANCEL", "failed"}, fmt \in ExportFormats,
          normal \in BOOLEAN, nomip \in BOOLEAN :
          LET p == [plugin EXCEPT !.selector = "OptionsStart", !.gResult = "noErr"]
          IN  plugin' =
                CASE outcome = "IDOK" -> DlgOK(p, fmt, normal, nomip)
                  [] outcome = "IDCANCEL" ->
                        [DlgCancel(p, fmt, normal, nomip) EXCEPT !.gResult = "userCanceledErr"]
                  [] OTHER -> DlgFailed(p)
    /\ pc' = "idle"
    /\ UNCHANGED <<writer, requested, output, loader, data, ret, probe>>

\* The loop of DoEstimateStart: one term per level until both dimensions
\* are 1, 8 bytes per 4x4 block for DXT1 and 16 for every other format.
RECURSIVE EstimateLoop(_, _, _, _)
EstimateLoop(estimate, mipWidth, mipHeight, exportFormat) ==
    IF ~(mipWidth >= 1 /\ mipHeight >= 1) THEN estimate
    ELSE LET blocks == ((mipWidth + 3) \div 4) * ((mipHeight + 3) \div 4)
             next == estimate + blocks * (IF exportFormat = IMAGE_FORMAT_DXT1 THEN 8 ELSE 16)
         IN  IF mipWidth = 1 /\ mipHeight = 1 THEN next
             ELSE EstimateLoop(next, HalfDim(mipWidth), HalfDim(mipHeight), exportFormat)

\* formatSelectorEstimateStart for a document of width x height pixels.
DoEstimateStart ==
    /\ pc \in {"new", "idle"}
    /\ \E width \in 1..MaxDim, height \in 1..MaxDim :
          LET estimate == EstimateLoop(HeaderBytes, width, height, plugin.exportFormat)
          IN  plugin' = [plugin EXCEPT !.selector = "EstimateStart", !.gResult = "noErr",
                                       !.imageSize = [h |-> width, v |-> height],
                                       !.minDataBytes = estimate,
                                       !.maxDataBytes = estimate]
    /\ pc' = "estimated"
    /\ UNCHANGED <<writer, requested, output, loader, data, ret, probe>>

NextPlugin ==
    \/ DoReadStart
    \/ DoOptionsStart
    \/ DoEstimateStart

SpecPlugin == Init /\ [][NextPlugin]_vars

(***************************************************************************)
(* SpecCalls: the free functions are called on their own, each with        *)
(* arguments drawn from a set.                                             *)
(***************************************************************************)
\* Dimensions beyond the small ones: 2^14, 2^15 and the largest value of a
\* 16-bit header field.
LargeDims == {Pow2(14), Pow2(15), Pow2(16) - 1}

SizeDims == (-1..MaxDim) \cup LargeDims

\* Every value of the VTFImageFormat enum and a value outside it.
AllFormats == (IMAGE_FORMAT_NONE..IMAGE_FORMAT_UVLX8888) \cup UnknownFormats

\* CalculateImageSize(width, height, format); result is the value of the
\* int expression the function returns.
CallCalculateImageSize ==
    /\ pc = "new"
    /\ \E width \in SizeDims, height \in SizeDims, format \in AllFormats :
          probe' = [op |-> "CalculateImageSize", width |-> width, height |-> height,
                    format |-> format,
                    result |-> CalculateImageSize(width, height, format)]
    /\ pc' = "probed"
    /\ UNCHANGED <<writer, requested, output, loader, data, ret, plugin>>

\* Colours the probed 4x4 blocks are made of: extremes, primaries, greys,
\* values that differ only below the 565 precision, partial alphas.
BlockColours ==
    << <<0, 0, 0, 255>>, <<255, 255, 255, 255>>, <<255, 0, 0, 255>>, <<0, 255, 0, 255>>,
       <<100, 100, 100, 128>>, <<7, 0, 0, 255>>, <<2, 0, 0, 255>>, <<31, 200, 90, 77>> >>

\* The block with colour a at pixel 0, colour b at pixel 1 and at every
\* fifth pixel, colour c elsewhere.
BlockOf(a, b, c) ==
    [i \in 1..64 |->
        LET p == (i - 1) \div 4
            colour == IF p = 0 THEN a ELSE IF p % 5 = 1 THEN b ELSE c
        IN  colour[((i - 1) % 4) + 1]]

Blocks ==
    {BlockOf(BlockColours[a], BlockColours[b], BlockColours[c]) :
        a \in 1..Len(BlockColours), b \in 1..Len(BlockColours), c \in 1..Len(BlockColours)}
    \cup {TestPixels(4, 4, sd) : sd \in Seeds}

\* CompressDXT1Block on a block, then DecompressDXT1Block on its 8 bytes;
\* fourColor tells which branch the decoder took, encPalette and decPalette
\* are the RGB palettes the two functions built.
CallDXT1Block ==
    /\ pc = "new"
    /\ \E rgba \in Blocks, hasAlpha \in BOOLEAN :
          LET compressed == CompressDXT1Block(rgba)
          IN  probe' = [op |-> "DXT1Block", rgba |-> rgba, hasAlpha |-> hasAlpha,
                        compressed |-> compressed,
                        encPalette |-> DXT1EncPalette(DXT1Endpoints(rgba)),
                        decPalette |->
                            LET pal == DXT1DecPalette(ReadU16(compressed, 0),
                                                      ReadU16(compressed, 2), hasAlpha)
                            IN  [j \in 1..4 |-> SubSeq(pal[j], 1, 3)],
                        fourColor |-> DXT1FourColorMode(ReadU16(compressed, 0),
                                                        ReadU16(compressed, 2), hasAlpha),
                        decoded |-> DecompressDXT1Block(compressed, hasAlpha)]
    /\ pc' = "probed"
    /\ UNCHANGED <<writer, requested, output, loader, data, ret, plugin>>

\* CompressDXT5Block on a block, then DecompressDXT5Block on its 16 bytes;
\* eightAlpha tells which alpha branch the decoder took.
CallDXT5Block ==
    /\ pc = "new"
    /\ \E rgba \in Blocks :
          LET compressed == CompressDXT5Block(rgba)
          IN  probe' = [op |-> "DXT5Block", rgba |-> rgba,
                        compressed |-> compressed,
                        eightAlpha |-> DXT5EightAlphaMode(At(compressed, 0),
                                                          At(compressed, 1)),
                        decoded |-> DecompressDXT5Block(compressed)]
    /\ pc' = "probed"
    /\ UNCHANGED <<writer, requested, output, loader, data, ret, plugin>>

NextCalls ==
    \/ CallCalculateImageSize
    \/ CallDXT1Block
    \/ CallDXT5Block

SpecCalls == Init /\ [][NextCalls]_vars

(***************************************************************************)
(* Properties.                                                             *)
(***************************************************************************)
\* What the properties read off a buffer's header bytes.
SupportedVersion(buf) ==
    /\ Slice(buf, OffVersionMajor, 4) = <<7, 0, 0, 0>>
    /\ Slice(buf, OffVersionMinor, 4) \in {<<k, 0, 0, 0>> : k \in 0..5}

HasSignature(buf) == Slice(buf, 0, 4) = <<86, 84, 70, 0>>

ValidHeader(buf) == Len(buf) >= 80 /\ HasSignature(buf) /\ SupportedVersion(buf)

DeclaredWidth(buf) == ReadU16(buf, OffWidth)
DeclaredHeight(buf) == ReadU16(buf, OffHeight)
DeclaredFormat(buf) == ReadI32(buf, OffHighResImageFormat)
DeclaredFrames(buf) == Max2(1, ReadU16(buf, OffFrames))
DeclaredMips(buf) == Max2(1, ReadU8(buf, OffMipmapCount))

ThumbnailBytes(buf) ==
    IF /\ ReadI32(buf, OffLowResImageFormat) # IMAGE_FORMAT_NONE
       /\ ReadU8(buf, OffLowResImageWidth) > 0
       /\ ReadU8(buf, OffLowResImageHeight) > 0
    THEN CalculateImageSize(ReadU8(buf, OffLowResImageWidth),
                            ReadU8(buf, OffLowResImageHeight),
                            ReadI32(buf, OffLowResImageFormat))
    ELSE 0

\* d halved k times, each time with floor and a minimum of 1.
RECURSIVE HalvedTimes(_, _)
HalvedTimes(d, k) == IF k = 0 THEN d ELSE HalvedTimes(Max2(1, d \div 2), k - 1)

\* The sum over levels from..to of CalculateImageSize(w_k, h_k, format).
RECURSIVE SumLevels(_, _, _, _, _)
SumLevels(from, to, width, height, format) ==
    IF from > to THEN 0
    ELSE CalculateImageSize(HalvedTimes(width, from), HalvedTimes(height, from), format)
            + SumLevels(from + 1, to, width, height, format)

\* The bytes the header of buf declares: header, thumbnail, all levels of
\* all frames.
DeclaredBytes(buf) ==
    ReadU32(buf, OffHeaderSize) + ThumbnailBytes(buf)
        + SumLevels(0, DeclaredMips(buf) - 1, DeclaredWidth(buf), DeclaredHeight(buf),
                    DeclaredFormat(buf)) * DeclaredFrames(buf)

Loaded == pc \in {"loaded", "reloaded"}

Written == pc \in {"written", "loaded"}

\* Every alpha byte of an RGBA image is 0 or 255.
BinaryAlpha(rgba) == \A p \in 0..(Len(rgba) \div 4 - 1) : At(rgba, 4 * p + 3) \in {0, 255}

\* C1: an RGBA8888 stream written from a w x h image (w, h >= 1, alpha 0 or
\* 255, mipmaps generated or not) loads successfully and the loader returns
\* the same width, the same height and exactly the source pixels.
C1_RoundTrip ==
    (/\ pc = "loaded"
     /\ writer.m_format = IMAGE_FORMAT_RGBA8888
     /\ BinaryAlpha(writer.m_sourceRGBA))
    => /\ ret.result = "ok"
       /\ loader.m_width = writer.m_width
       /\ loader.m_height = writer.m_height
       /\ loader.m_rgbaData = writer.m_sourceRGBA

\* A 3x2 RGBA8888 image with a two-level pyramid has been written and loaded.
C1_Witness ==
    /\ pc = "loaded"
    /\ writer.m_format = IMAGE_FORMAT_RGBA8888
    /\ BinaryAlpha(writer.m_sourceRGBA)
    /\ writer.m_width = 3 /\ writer.m_height = 2
    /\ Len(writer.m_mipmaps) = 2
    /\ ret.result = "ok"

\* The encodings of the writer's pyramid levels, level k at index k + 1.
EncodedLevels ==
    [i \in 1..Len(writer.m_mipmaps) |->
        CompressImage(writer.m_mipmaps[i], MipDim(writer.m_width, i - 1),
                      MipDim(writer.m_height, i - 1), writer.m_format)]

\* The total length of the byte strings of enc from index i on.
RECURSIVE LengthFrom(_, _)
LengthFrom(enc, i) == IF i > Len(enc) THEN 0 ELSE Len(enc[i]) + LengthFrom(enc, i + 1)

\* C2: the written stream is the 80-byte header followed by the encoded
\* levels from the smallest (highest index) to the largest: level k starts
\* right after all levels of higher index, and level 0 ends the stream.
C2_SmallestFirst ==
    Written =>
        LET enc == EncodedLevels
            LevelStart(k) == 80 + LengthFrom(enc, k + 2)
        IN  /\ Len(output) >= 80
            /\ HasSignature(output)
            /\ ReadU32(output, OffHeaderSize) = 80
            /\ \A k \in 0..(Len(enc) - 1) :
                  Slice(output, LevelStart(k), Len(enc[k + 1])) = enc[k + 1]
            /\ LevelStart(0) + Len(enc[1]) = Len(output)

\* A written 4x1 stream with three levels whose encodings have the lengths
\* 12, 6 and 3: the smallest level is at 80, the largest at 89.
C2_Witness ==
    /\ pc = "written"
    /\ Len(writer.m_mipmaps) = 3
    /\ writer.m_format = IMAGE_FORMAT_RGB888
    /\ writer.m_width = 4 /\ writer.m_height = 1
    /\ Len(output) = 80 + 3 + 6 + 12

\* C3: on a successful load the mip-0 pixels are read at headerSize, plus
\* the thumbnail size when a thumbnail is present, plus the sizes of levels
\* 1..mipmapCount-1 times the frame count.
C3_MipZeroOffset ==
    (Loaded /\ ret.result = "ok")
    => ret.offset
         = ReadU32(data, OffHeaderSize) + ThumbnailBytes(data)
             + SumLevels(1, DeclaredMips(data) - 1, DeclaredWidth(data),
                         DeclaredHeight(data), DeclaredFormat(data)) * DeclaredFrames(data)

\* A loaded 2x2 file with a thumbnail, three levels and two frames.
C3_Witness ==
    /\ Loaded /\ ret.result = "ok"
    /\ ThumbnailBytes(data) > 0
    /\ DeclaredMips(data) = 3 /\ DeclaredFrames(data) = 2
    /\ DeclaredWidth(data) = 2 /\ DeclaredHeight(data) = 2
    /\ ret.offset > ReadU32(data, OffHeaderSize) + ThumbnailBytes(data)

BodyUntouched ==
    /\ ret.result = "fail"
    /\ ret.offset = -1
    /\ ~ret.converted
    /\ loader.m_rgbaData = ret.before.m_rgbaData

IsVersionError(error) == Len(error) = 3 /\ error[1] = "Unsupported VTF version: "

\* C5: a load fails with the too-small error when the buffer is shorter
\* than 80 bytes, else with the bad-signature error when the first four
\* bytes are not 'V','T','F',0, else with the unsupported-version error when
\* major is not 7 or minor is above 5; in each case the body is not
\* inspected and no pixel buffer is allocated.
C5_HeaderPrecedence ==
    Loaded =>
        /\ Len(data) < 80
              => (BodyUntouched /\ loader.m_error = <<"File too small for VTF header">>)
        /\ (Len(data) >= 80 /\ ~HasSignature(data))
              => (BodyUntouched /\ loader.m_error = <<"Invalid VTF signature">>)
        /\ (Len(data) >= 80 /\ HasSignature(data) /\ ~SupportedVersion(data))
              => (BodyUntouched /\ IsVersionError(loader.m_error))

\* C6: a header with the right signature is refused with the
\* unsupported-version error for every major other than 7 and for every
\* 32-bit unsigned minor outside 0..5, the values from 2^31 on included.
C6_VersionRefused ==
    (Loaded /\ Len(data) >= 80 /\ HasSignature(data) /\ ~SupportedVersion(data))
    => (ret.result = "fail" /\ IsVersionError(loader.m_error))

\* The state a caller can observe on a loader, the error message aside.
Observable(l) ==
    [width |-> l.m_width, height |-> l.m_height, frameCount |-> l.m_frameCount,
     mipmapCount |-> l.m_mipmapCount, format |-> l.m_format, hasAlpha |-> l.m_hasAlpha,
     versionMajor |-> l.m_versionMajor, versionMinor |-> l.m_versionMinor,
     rgbaData |-> l.m_rgbaData]

\* C7: a load that fails leaves width, height, frame count, mipmap count,
\* format, hasAlpha, version and the RGBA buffer of the loader as they were
\* before the call.
C7_FailedLoadKeepsState ==
    (Loaded /\ ret.result = "fail") => Observable(loader) = Observable(ret.before)

\* The RGBA buffer holds width*height pixels, each (255, 0, 255, 255).
AllMagenta(rgba, width, height) ==
    /\ Len(rgba) = width * height * 4
    /\ \A i \in 1..Len(rgba) : rgba[i] = (IF (i - 1) % 4 = 1 THEN 0 ELSE 255)

MagentaOutcome ==
    /\ ret.result = "ok"
    /\ AllMagenta(loader.m_rgbaData, DeclaredWidth(data), DeclaredHeight(data))
    /\ loader.m_error = <<"Unsupported image format: ", DeclaredFormat(data)>>

C9_StreamLength ==
    /\ Written
          => Len(output)
               = 80 + SumLevels(0, Len(writer.m_mipmaps) - 1, writer.m_width,
                                writer.m_height, writer.m_format)
    /\ pc = "loaded"
          => loader.m_error # <<"File truncated - not enough image data">>

\* C10: whatever the order of SetImageData and SetFormat, when the image
\* has no alpha and DXT5 is the requested format, the header of the
\* written stream names DXT1 and the body is the DXT1 encoding of the levels.
C10_DowngradeInAnyOrder ==
    (Written /\ ~writer.m_hasAlpha /\ requested = IMAGE_FORMAT_DXT5)
    => /\ ReadI32(output, OffHighResImageFormat) = IMAGE_FORMAT_DXT1
       /\ Len(output)
            = 80 + SumLevels(0, Len(writer.m_mipmaps) - 1, writer.m_width,
                             writer.m_height, IMAGE_FORMAT_DXT1)

\* The exact product a * b * c of two values below 2^16 and a small factor,
\* as <<high part, low 16 bits>>.
ExactProduct(a, b, c) ==
    LET ab == Mul16(a, b)
        low == ab[2] * c
    IN  <<ab[1] * c + low \div 65536, low % 65536>>

\* An int as <<high part, low 16 bits>>; the high part of a negative int is
\* negative.
WideOfInt(x) == <<(x - (x % 65536)) \div 65536, x % 65536>>

\* The size the formula gives for width, height and format.
ExactSize(width, height, format) ==
    LET w == Max2(1, width)
        h == Max2(1, height)
        CeilDiv4(d) == (d + 3) \div 4
    IN  CASE format \in {IMAGE_FORMAT_DXT1, IMAGE_FORMAT_DXT1_ONEBITALPHA} ->
                ExactProduct(CeilDiv4(w), CeilDiv4(h), 8)
          [] format \in {IMAGE_FORMAT_DXT3, IMAGE_FORMAT_DXT5} ->
                ExactProduct(CeilDiv4(w), CeilDiv4(h), 16)
          [] OTHER -> ExactProduct(w, h, GetBytesPerPixel(format))

SizeProbed == probe.op = "CalculateImageSize"

\* C11: for all integers w, h and every format CalculateImageSize returns,
\* with w and h raised to at least 1, ceil(w/4)*ceil(h/4)*8 for DXT1 and
\* DXT1_ONEBITALPHA, ceil(w/4)*ceil(h/4)*16 for DXT3 and DXT5, and
\* w*h*GetBytesPerPixel(format) for every other format.
C11_SizeFormula ==
    SizeProbed
    => WideOfInt(probe.result) = ExactSize(probe.width, probe.height, probe.format)

\* C12 as stated: CalculateImageSize(4,4,DXT1) = 8, CalculateImageSize(5,5,DXT1)
\* = 8 (one padded block), CalculateImageSize(4,4,DXT5) = 16 and
\* CalculateImageSize(2,2,RGBA8888) = 16.
C12_OnePaddedBlock ==
    SizeProbed =>
        LET args == <<probe.width, probe.height, probe.format>>
        IN  /\ args = <<4, 4, IMAGE_FORMAT_DXT1>> => probe.result = 8
            /\ args = <<5, 5, IMAGE_FORMAT_DXT1>> => probe.result = 8
            /\ args = <<4, 4, IMAGE_FORMAT_DXT5>> => probe.result = 16
            /\ args = <<2, 2, IMAGE_FORMAT_RGBA8888>> => probe.result = 16

\* C12: CalculateImageSize(4,4,DXT1) = 8, CalculateImageSize(5,5,DXT1) = 32
\* (a 5x5 image occupies 2x2 padded blocks), CalculateImageSize(4,4,DXT5) = 16
\* and CalculateImageSize(2,2,RGBA8888) = 16.
C12_SizeExamples ==
    SizeProbed =>
        LET args == <<probe.width, probe.height, probe.format>>
        IN  /\ args = <<4, 4, IMAGE_FORMAT_DXT1>> => probe.result = 8
            /\ args = <<5, 5, IMAGE_FORMAT_DXT1>> => probe.result = 32
            /\ args = <<4, 4, IMAGE_FORMAT_DXT5>> => probe.result = 16
            /\ args = <<2, 2, IMAGE_FORMAT_RGBA8888>> => probe.result = 16

\* CalculateImageSize(5, 5, DXT1) has been called.
C12_Witness ==
    /\ SizeProbed
    /\ probe.width = 5 /\ probe.height = 5 /\ probe.format = IMAGE_FORMAT_DXT1

\* Bytes of the written header.
HeaderU8(off) == ReadU8(output, off)
HeaderU16(off) == ReadU16(output, off)

\* C13: with mipmap generation enabled the pyramid of a w x h image (w, h
\* >= 1) has the unmodified input as level 0, level k of max(1, floor(w/2))
\* by max(1, floor(h/2)) of the level before, and ends exactly with the
\* first 1x1 level; a 6x6 image yields the three levels 6x6, 3x3, 1x1.
C13_MipChain ==
    (Written /\ writer.m_generateMipmaps) =>
        LET mips == writer.m_mipmaps
            n == Len(mips)
            W(k) == HalvedTimes(writer.m_width, k)
            H(k) == HalvedTimes(writer.m_height, k)
        IN  /\ n >= 1
            /\ mips[1] = writer.m_sourceRGBA
            /\ \A k \in 0..(n - 1) : Len(mips[k + 1]) = W(k) * H(k) * 4
            /\ W(n - 1) = 1 /\ H(n - 1) = 1
            /\ \A k \in 0..(n - 2) : W(k) > 1 \/ H(k) > 1
            /\ (writer.m_width = 6 /\ writer.m_height = 6)
                  => <<n, Len(mips[1]), Len(mips[2]), Len(mips[3])>> = <<3, 144, 36, 4>>

\* The pyramid of the 6x6 image has been built.
C13_Witness ==
    /\ Written /\ writer.m_generateMipmaps
    /\ writer.m_width = 6 /\ writer.m_height = 6
    /\ Len(writer.m_mipmaps) = 3

\* C14: with mipmap generation disabled the pyramid has exactly one level,
\* the original image, the header's mipmapCount is 1, and the body is the
\* encoding of the full-resolution image and nothing else.
C14_NoMipmaps ==
    (Written /\ ~writer.m_generateMipmaps) =>
        /\ writer.m_mipmaps = <<writer.m_sourceRGBA>>
        /\ HeaderU8(OffMipmapCount) = 1
        /\ Slice(output, 80, Len(output) - 80)
             = CompressImage(writer.m_sourceRGBA, writer.m_width, writer.m_height,
                             writer.m_format)

\* A 4x4 image has been written without mipmaps.
C14_Witness ==
    /\ Written /\ ~writer.m_generateMipmaps
    /\ writer.m_width = 4 /\ writer.m_height = 4
    /\ Len(output) > 80

\* C15: every written stream starts with an 80-byte header: signature
\* 'V','T','F',0, version (7,2), headerSize 80, frames 1, firstFrame 0,
\* depth 1, low-res format NONE with 0x0 dimensions, the configured flags,
\* the source width and height, and mipmapCount equal to the number of
\* levels in the body.
C15_Header ==
    Written =>
        /\ Len(output) >= 80
        /\ Slice(output, 0, 4) = <<86, 84, 70, 0>>
        /\ Slice(output, OffVersionMajor, 4) = <<7, 0, 0, 0>>
        /\ Slice(output, OffVersionMinor, 4) = <<2, 0, 0, 0>>
        /\ Slice(output, OffHeaderSize, 4) = <<80, 0, 0, 0>>
        /\ HeaderU16(OffFrames) = 1
        /\ HeaderU16(OffFirstFrame) = 0
        /\ HeaderU16(OffDepth) = 1
        /\ Slice(output, OffLowResImageFormat, 4) = <<255, 255, 255, 255>>
        /\ HeaderU8(OffLowResImageWidth) = 0 /\ HeaderU8(OffLowResImageHeight) = 0
        /\ ReadU32(output, OffFlags) = writer.m_flags
        /\ HeaderU16(OffWidth) = writer.m_width
        /\ HeaderU16(OffHeight) = writer.m_height
        /\ HeaderU8(OffMipmapCount) = Len(writer.m_mipmaps)

\* A 4x2 stream written without mipmaps and with two flags set.
C15_Witness ==
    /\ Written
    /\ writer.m_width = 4 /\ writer.m_height = 2
    /\ ~writer.m_generateMipmaps
    /\ writer.m_flags = TEXTUREFLAGS_NOMIP + TEXTUREFLAGS_EIGHTBITALPHA

\* Channel c (0..3) of pixel p of an RGBA buffer.
Channel(rgba, p, c) == At(rgba, 4 * p + c)

\* C16: for the uncompressed formats the encoder implements, loading the
\* written stream gives back the image: BGRA8888 reproduces R, G, B and A
\* of every pixel, RGB888 and BGR888 reproduce R, G and B of every pixel
\* and give alpha 255.
C16_UncompressedRoundTrip ==
    pc = "loaded" =>
        LET src == writer.m_sourceRGBA
            dst == loader.m_rgbaData
            pixels == 0..(writer.m_width * writer.m_height - 1)
        IN  /\ writer.m_format = IMAGE_FORMAT_BGRA8888
                  => (ret.result = "ok" /\ dst = src)
            /\ writer.m_format \in {IMAGE_FORMAT_RGB888, IMAGE_FORMAT_BGR888}
                  => /\ ret.result = "ok"
                     /\ Len(dst) = Len(src)
                     /\ \A p \in pixels :
                           /\ \A c \in 0..2 : Channel(dst, p, c) = Channel(src, p, c)
                           /\ Channel(dst, p, 3) = 255

\* A 3x2 BGR888 stream with two levels has been written and loaded.
C16_Witness ==
    /\ pc = "loaded"
    /\ writer.m_format = IMAGE_FORMAT_BGR888
    /\ writer.m_width = 3 /\ writer.m_height = 2
    /\ Len(writer.m_mipmaps) = 2
    /\ ret.result = "ok"

\* The values channel c takes over the 16 pixels, the largest and the
\* smallest of them.
BlockValues(rgba, c) == {Channel(rgba, p, c) : p \in 0..15}

BlockMax(rgba, c) ==
    LET vals == BlockValues(rgba, c) IN CHOOSE v \in vals : \A w \in vals : w <= v

BlockMin(rgba, c) ==
    LET vals == BlockValues(rgba, c) IN CHOOSE v \in vals : \A w \in vals : w >= v

\* Every colour channel of every decoded pixel is within Allowed(c)/3 of
\* the source value.
WithinAllowance(Allowed(_)) ==
    \A c \in 0..2 :
        LET allowed == Allowed(c)
        IN  \A p \in 0..15 :
                Abs(Channel(probe.decoded, p, c) - Channel(probe.rgba, p, c)) * 3 <= allowed

DXT1Probed == probe.op = "DXT1Block"

\* C17 as stated: for every 4x4 block, CompressDXT1Block followed by
\* DecompressDXT1Block gives every pixel's R, G and B with an absolute error
\* of at most (max - min)/3 of that channel over the block.
C17_ThirdOfRange ==
    (DXT1Probed /\ ~probe.hasAlpha) =>
        LET Third(c) == BlockMax(probe.rgba, c) - BlockMin(probe.rgba, c)
        IN  WithinAllowance(Third)

\* C17: for every 4x4 block, CompressDXT1Block followed by
\* DecompressDXT1Block in its default mode (hasAlpha false) gives every
\* pixel's R, G and B with an absolute error of at most (max - min) + 7 of
\* that channel over the block.
C17_RangePlusSeven ==
    (DXT1Probed /\ ~probe.hasAlpha) =>
        LET Range(c) == 3 * (BlockMax(probe.rgba, c) - BlockMin(probe.rgba, c) + 7)
        IN  WithinAllowance(Range)

\* A block of red, green and grey pixels has been compressed and decoded.
C17_Witness ==
    /\ DXT1Probed /\ ~probe.hasAlpha
    /\ BlockMax(probe.rgba, 0) = 255 /\ BlockMin(probe.rgba, 0) = 0
    /\ BlockMax(probe.rgba, 1) = 255 /\ BlockMin(probe.rgba, 1) = 0
    /\ probe.decoded # probe.rgba

\* C18: every block produced by CompressDXT1Block is decoded by
\* DecompressDXT1Block in four-colour mode, for both values of hasAlpha,
\* also when the two RGB565 endpoints are equal.
C18_FourColourMode == DXT1Probed => probe.fourColor

DXT5Probed == probe.op = "DXT5Block"

\* The alpha endpoints of the compressed block are the exact maximum, then
\* the exact minimum, of the 16 alpha values.
ExactAlphaEndpoints ==
    /\ At(probe.compressed, 0) = BlockMax(probe.rgba, 3)
    /\ At(probe.compressed, 1) = BlockMin(probe.rgba, 3)

\* C19 as stated: the alpha endpoints CompressDXT5Block writes are the
\* exact maximum then the exact minimum, and DecompressDXT5Block always
\* takes the 8-step branch, also when all 16 alpha values are equal.
C19_AlwaysEightStep == DXT5Probed => (ExactAlphaEndpoints /\ probe.eightAlpha)

\* C19: the alpha endpoints CompressDXT5Block writes are the exact maximum
\* then the exact minimum; DecompressDXT5Block takes the 8-step branch
\* exactly when the 16 alpha values are not all equal, and when they are
\* all equal it takes the 6-step branch and still decodes every alpha
\* exactly.
C19_EightStepUnlessEqual ==
    DXT5Probed =>
        /\ ExactAlphaEndpoints
        /\ probe.eightAlpha <=> BlockMax(probe.rgba, 3) > BlockMin(probe.rgba, 3)
        /\ BlockMax(probe.rgba, 3) = BlockMin(probe.rgba, 3)
              => \A p \in 0..15 : Channel(probe.decoded, p, 3) = Channel(probe.rgba, p, 3)

\* A block whose 16 alpha values are all 128 has been compressed and decoded.
C19_Witness ==
    /\ DXT5Probed
    /\ BlockMax(probe.rgba, 3) = 128 /\ BlockMin(probe.rgba, 3) = 128
    /\ ~probe.eightAlpha

LoadObservedDecoded == probe.op = "LoadFromMemory" /\ probe.outcome = "decoded"

\* C20: for every buffer LoadFromMemory accepts, whatever header size,
\* width, height, frame count, mip count and format it declares, every byte
\* read lies inside the size bytes of the buffer and every byte written lies
\* inside the width*height*4 output buffer, partial DXT blocks included.
C20_AccessesInBounds ==
    LoadObservedDecoded =>
        /\ probe.written <= probe.allocated
        /\ probe.read = 0
              \/ (probe.offset >= 0 /\ probe.offset <= probe.size
                    /\ probe.read <= probe.size - probe.offset)

\* The file the host opened has a valid header and fewer bytes than the
\* header declares.
ShortFileRead == pc = "read" /\ ValidHeader(data) /\ Len(data) < DeclaredBytes(data)

\* C21: DoReadStart on a file whose header is valid but which holds fewer
\* bytes than headerSize + thumbnail + the declared mip/frame data ends
\* with an error result; a short read never becomes a success.
C21_ShortReadRefused == ShortFileRead => plugin.gResult # "noErr"

\* C22: for every 4x4 block the 4-entry RGB palette CompressDXT1Block picks
\* its indices from is the palette DecompressDXT1Block rebuilds from the
\* two RGB565 endpoints written, so every decoded pixel is the entry the
\* encoder judged nearest.
C22_SamePalette ==
    (DXT1Probed /\ ~probe.hasAlpha) =>
        /\ probe.encPalette = probe.decPalette
        /\ \A p \in 0..15 :
              LET j == DXT1IndexAt(probe.compressed, p)
              IN  \A c \in 0..2 : Channel(probe.decoded, p, c) = probe.encPalette[j + 1][c + 1]

\* The source pixels of the 2x2 footprint at (2x, 2y) that lie inside a
\* level of sw x sh pixels.
Footprint(x, y, sw, sh) ==
    {q \in {2 * x, 2 * x + 1} \X {2 * y, 2 * y + 1} : q[1] < sw /\ q[2] < sh}

\* The sum of channel c of level src (sw pixels wide) over the pixels of inside.
RECURSIVE FootprintSum(_, _, _, _)
FootprintSum(inside, src, sw, c) ==
    IF inside = {} THEN 0
    ELSE LET q == CHOOSE q \in inside : TRUE
         IN  At(src, (q[2] * sw + q[1]) * 4 + c)
                + FootprintSum(inside \ {q}, src, sw, c)

\* C23: every channel, alpha included, of every pixel (x, y) of a generated
\* level is the truncated average of the pixels of the 2x2 footprint at
\* (2x, 2y) inside the source level; 1, 2 or 4 pixels are averaged, never
\* 0, and every index read lies inside the source level, also for odd
\* dimensions and dimensions of 1.
C23_BoxAverage ==
    Written =>
        \A k \in 1..(Len(writer.m_mipmaps) - 1) :
            LET src == writer.m_mipmaps[k]
                dst == writer.m_mipmaps[k + 1]
                sw == HalvedTimes(writer.m_width, k - 1)
                sh == HalvedTimes(writer.m_height, k - 1)
                dw == HalvedTimes(writer.m_width, k)
                dh == HalvedTimes(writer.m_height, k)
            IN  \A x \in 0..(dw - 1), y \in 0..(dh - 1) :
                    LET inside == Footprint(x, y, sw, sh)
                    IN  /\ Cardinality(inside) \in {1, 2, 4}
                        /\ \A q \in inside, c \in 0..3 :
                              (q[2] * sw + q[1]) * 4 + c < Len(src)
                        /\ \A c \in 0..3 :
                              At(dst, (y * dw + x) * 4 + c)
                                  = FootprintSum(inside, src, sw, c) \div Cardinality(inside)

\* The pyramid of a 5x1 image has been built: its levels are 5x1, 2x1 and
\* 1x1, each pixel the average of two.
C23_Witness ==
    /\ Written /\ writer.m_generateMipmaps
    /\ writer.m_width = 5 /\ writer.m_height = 1
    /\ Len(writer.m_mipmaps) = 3
    /\ Footprint(1, 0, 5, 1) = {<<2, 0>>, <<3, 0>>}
    /\ At(writer.m_mipmaps[2], 4) # At(writer.m_mipmaps[1], 8)

\* C27: for every source size and every level k of the pyramid, the
\* dimensions WriteToMemory passes to CompressImage (m_width >> k and
\* m_height >> k, at least 1) are the dimensions GenerateMipmaps built
\* level k with, so m_mipmaps[k] holds exactly mipW*mipH*4 bytes and no
\* index CompressImage reads lies past it.
C27_LevelDimensions ==
    Written =>
        \A k \in 0..(Len(writer.m_mipmaps) - 1) :
            LET mipW == MipDim(writer.m_width, k)
                mipH == MipDim(writer.m_height, k)
            IN  /\ mipW = HalvedTimes(writer.m_width, k)
                /\ mipH = HalvedTimes(writer.m_height, k)
                /\ Len(writer.m_mipmaps[k + 1]) = mipW * mipH * 4
                /\ \A x \in 0..(mipW - 1), y \in 0..(mipH - 1) :
                      (y * mipW + x) * 4 + 3 < Len(writer.m_mipmaps[k + 1])

\* The pyramid of a 5x3 image has been written: 5x3, 2x1, 1x1.
C27_Witness ==
    /\ Written /\ writer.m_generateMipmaps
    /\ writer.m_width = 5 /\ writer.m_height = 3
    /\ Len(writer.m_mipmaps) = 3
    /\ Len(writer.m_mipmaps[2]) = 8

\* The sticky settings and the export settings of a plugin state.
StickySettings(p) == <<p.s_lastFormat, p.s_lastFlags, p.s_lastMipmaps>>
ExportSettings(p) == <<p.exportFormat, p.flags, p.generateMipmaps>>

\* C25: across any sequence of options-dialog outcomes the sticky settings
\* change only when the dialog is confirmed with OK, and then equal the
\* export format, flags and mipmap toggle just stored; a cancelled dialog
\* leaves the sticky and the export settings unchanged and reports
\* userCanceledErr.
C25_StickyOnlyOnOK ==
    [][ LET options == plugin'.selector = "OptionsStart"
        IN  /\ StickySettings(plugin') # StickySettings(plugin)
                  => (options /\ plugin'.dialogResult = "IDOK")
            /\ (options /\ plugin'.dialogResult = "IDOK")
                  => StickySettings(plugin') = ExportSettings(plugin')
            /\ (options /\ plugin'.dialogResult = "IDCANCEL")
                  => /\ StickySettings(plugin') = StickySettings(plugin)
                     /\ ExportSettings(plugin') = ExportSettings(plugin)
                     /\ plugin'.gResult = "userCanceledErr" ]_vars

\* A dialog was cancelled after an earlier one had stored RGBA8888 without
\* mipmaps: those settings are still in place.
C25_Witness ==
    /\ plugin.selector = "OptionsStart" /\ plugin.dialogResult = "IDCANCEL"
    /\ plugin.gResult = "userCanceledErr"
    /\ plugin.s_lastFormat = IMAGE_FORMAT_RGBA8888 /\ ~plugin.s_lastMipmaps
    /\ StickySettings(plugin) = ExportSettings(plugin)

\* The stream DoWriteContinue would emit for a 4-plane document of the
\* size and the export settings of plugin state p.
StreamFor(p) ==
    LET w == PluginWriter(TestPixels(p.imageSize.h, p.imageSize.v, 0), p.imageSize.h,
                          p.imageSize.v, TRUE, p.exportFormat, p.generateMipmaps, p.flags)
    IN  WriteToMemoryBytes(w, GenerateMipmaps(w))

\* C24: the estimate DoEstimateStart reports (minDataBytes = maxDataBytes)
\* is the length of the stream WriteToMemory produces for the same
\* dimensions and the current export settings, for DXT1, DXT5, RGBA8888
\* and BGRA8888 and both settings of the mipmap toggle.
C24_EstimateIsLength ==
    plugin.selector = "EstimateStart" =>
        /\ plugin.minDataBytes = plugin.maxDataBytes
        /\ plugin.minDataBytes = Len(StreamFor(plugin))

\* A value given as <<high part, low 16 bits>> lies in the range of int.
FitsInt(wide) == wide[1] >= -32768 /\ wide[1] < 32768

\* C26: for every width and height a header can hold and every format, the
\* size CalculateImageSize computes and the width*height*4 of the output
\* buffer stay inside the range of the 32-bit int they are computed in, so
\* the value the truncation test uses is the true size.
C26_SizesFitInt ==
    (SizeProbed /\ probe.width >= 0 /\ probe.height >= 0) =>
        /\ FitsInt(ExactSize(probe.width, probe.height, probe.format))
        /\ FitsInt(ExactProduct(probe.width, probe.height, 4))
        /\ WideOfInt(probe.result) = ExactSize(probe.width, probe.height, probe.format)
        /\ WideOfInt(IntMul(IntMul(probe.width, probe.height), 4))
              = ExactProduct(probe.width, probe.height, 4)

\* The export flags of the plugin carry the NOMIP bit.
HasNoMip(flags) == (flags \div TEXTUREFLAGS_NOMIP) % 2 = 1

\* C28: after any sequence of dialog outcomes (OK with any combination of
\* check boxes, Cancel, or a dialog that could not be created and fell back
\* to the defaults), generateMipmaps is true exactly when the NOMIP flag is
\* absent from the export flags.
C28_MipmapsIffNoNomipFlag ==
    plugin.generateMipmaps <=> ~HasNoMip(plugin.flags)

\* The most recent LoadFromMemory call failed, or succeeded on a format
\* ConvertToRGBA has no conversion for.
LastCallLeftError ==
    \/ ret.result = "fail"
    \/ ret.result = "ok" /\ loader.m_format \notin DecoderFormats

\* C29: over any sequence of LoadFromMemory calls on one VTFLoader,
\* GetError() is non-empty exactly when the most recent call failed or
\* decoded an unsupported format; a successful load of a supported format
\* after a failed load leaves no stale error.
C29_ErrorOfLastCallOnly ==
    Loaded => (loader.m_error # <<>> <=> LastCallLeftError)

\* The per-channel maxima and minima of the colour channels of a block.
BlockMaxima(rgba) == <<BlockMax(rgba, 0), BlockMax(rgba, 1), BlockMax(rgba, 2)>>
BlockMinima(rgba) == <<BlockMin(rgba, 0), BlockMin(rgba, 1), BlockMin(rgba, 2)>>

\* C30: in CompressDXT1Block the 565 word packed from the per-channel
\* maxima is never smaller than the word packed from the per-channel
\* minima, so the swap branch is never taken and the block is written with
\* color0 >= color1, color0 being the word of the maxima.
C30_SwapNeverTaken ==
    DXT1Probed =>
        /\ ToColor565(BlockMaxima(probe.rgba)) >= ToColor565(BlockMinima(probe.rgba))
        /\ ~DXT1Endpoints(probe.rgba).swapped
        /\ ReadU16(probe.compressed, 0) >= ReadU16(probe.compressed, 2)
        /\ ReadU16(probe.compressed, 0) = ToColor565(BlockMaxima(probe.rgba))
        /\ ReadU16(probe.compressed, 2) = ToColor565(BlockMinima(probe.rgba))

\* A block whose maxima and minima pack to different words and in which no
\* pixel carries all three maxima has been compressed.
C30_Witness ==
    /\ DXT1Probed
    /\ ReadU16(probe.compressed, 0) > ReadU16(probe.compressed, 2)
    /\ \A p \in 0..15 :
          <<Channel(probe.rgba, p, 0), Channel(probe.rgba, p, 1), Channel(probe.rgba, p, 2)>>
              # BlockMaxima(probe.rgba)

====
